---------------------------- MODULE Spec2Model ----------------------------
(***************************************************************************)
(* Model of the API endpoint quiz solver.                                  *)
(*                                                                         *)
(*   SpecOracle  llm_service.get_structured_answer (the Retry/Backoff      *)
(*               Controller) and rate_limiter.GeminiRateLimiter, driven by *)
(*               the worker threads that are inside get_structured_answer. *)
(*   Spec        solver.solve_quiz_sequence_core for one session: page     *)
(*               fetch, deterministic solver, attempt loop, exhaustion.    *)
(*   SpecApi     main.handle_quiz_request and the executor.                *)
(*   SpecFormat  solver.format_answer_with_padding applied once and twice. *)
(*   SpecSanitize  llm_service: the cleanup of result.final_answer.         *)
(*   SpecMedia   the temporary media files of one stage.                   *)
(*   SpecRace    rate_limiter._clean_old_requests under two worker threads. *)
(*   SpecBudget  solver: the time budget of one stage.                     *)
(*   SpecRetry   llm_service: the retry loop with the exception raised.     *)
(*   SpecAttempt solver: one attempt loop, every outcome of an iteration.   *)
(*   SpecEndpoint solver: the URL the submissions of a stage are posted to. *)
(*   SpecSingleton rate_limiter.get_rate_limiter under two threads.         *)
(*   SpecSessions solver: the own state of two sessions side by side.       *)
(*                                                                         *)
(* Each specification moves its own variables and leaves the others at     *)
(* their initial values.                                                   *)
(*                                                                         *)
(* Time is the integer number of seconds read from time.time().  Strings   *)
(* (feedback texts, URLs, answers) are represented by the fields the code  *)
(* branches on.                                                            *)
(***************************************************************************)
EXTENDS Integers, Sequences, FiniteSets, TLC

(***************************************************************************)
(* Bounds of the model.                                                    *)
(***************************************************************************)
\* seconds by which one Tick advances the clock
TickStep == 30
\* number of Ticks explored
MaxTicks == 4
\* provider calls explored (calls_made)
MaxCalls == 5
\* calls of get_structured_answer explored (gsa_entries)
MaxEntries == 3
\* pages a session fetches
MaxFetches == 2
\* POST /quiz-task requests explored
MaxRequests == 2
\* symbols of a raw answer given to format_answer_with_padding
MaxAnswerLen == 4
\* examples and placeholders on a page
MaxPageTokens == 2
\* tokens of a final_answer given to the response cleanup
MaxAnswerTokens == 4
\* media files a page links to
MaxMedia == 2
\* calls of record_request and get_current_usage by the worker threads
MaxLimiterOps == 4

(***************************************************************************)
(* Program constants.                                                      *)
(***************************************************************************)
MAX_ATTEMPTS == 3
MAX_STAGE_TIME_SECONDS == 120
\* base_timeout of a text-only stage and of a multimodal stage
BASE_TIMEOUT_TEXT == 20
BASE_TIMEOUT_MULTIMODAL == 30
\* 'if time_left < 30: attempt_timeout = min(15, time_left / 2)'
EMERGENCY_TIME_LEFT == 30
EMERGENCY_TIMEOUT == 15
\* requests.post(target_url, ..., timeout=10) and requests.get(follow_url, timeout=5)
\* of a deterministic attempt
DET_POST_TIMEOUT == 10
DET_FOLLOW_TIMEOUT == 5
\* 'await asyncio.sleep(1)' of the except Exception clause
ERROR_SLEEP == 1
max_retries == 5
retry_delays == <<2, 4, 8, 16, 30>>
MINUTE_WINDOW == 60
TPM_BUFFER == 50000
DAY_SECONDS == 86400
\* get_adaptive_token_limit: the ceilings of the 'simple' and 'very_complex' tiers
TOKENS_SIMPLE == 512
TOKENS_VERY_COMPLEX == 4096

\* worker threads of the executor that run a session each
Sessions == {"s1", "s2"}

\* get_adaptive_token_limit for the pages of each session: the pages of s1 are
\* 'simple', those of s2 'very_complex'
PageTokenLimit == [s \in Sessions |-> IF s = "s1" THEN TOKENS_SIMPLE ELSE TOKENS_VERY_COMPLEX]

\* no asyncio.sleep is pending
NoWake == 0

\* the clock starts one minute before a calendar-day boundary
StartTime == DAY_SECONDS - MINUTE_WINDOW
EndTime == StartTime + MaxTicks * TickStep

\* GeminiRateLimiter(rpm_limit, tpm_limit, rpd_limit): the configurations explored
DEFAULT_RPM == 10
DEFAULT_TPM == 1000000
DEFAULT_RPD == 1500
Configs ==
  { [rpm |-> 1, tpm |-> DEFAULT_TPM, rpd |-> DEFAULT_RPD],
    [rpm |-> 2, tpm |-> DEFAULT_TPM, rpd |-> DEFAULT_RPD],
    [rpm |-> 3, tpm |-> TPM_BUFFER + 2 * TOKENS_SIMPLE, rpd |-> DEFAULT_RPD],
    [rpm |-> 3, tpm |-> DEFAULT_TPM, rpd |-> 2] }

VARIABLES
  now,              \* time.time()
  rpm_limit, tpm_limit, rpd_limit,
  requests_minute,  \* deque of <<timestamp, tokens_used>>
  requests_day,     \* deque of <<timestamp, tokens_used>>
  gsa_pc,           \* per thread: position inside get_structured_answer
  gsa_attempt,      \* per thread: index of the retry loop
  max_tokens,       \* per thread: token ceiling of the call
  wait_time,        \* per thread: last value of _calculate_wait_time (-1: none)
  wake_at,          \* per thread: end of the pending asyncio.sleep (NoWake: none)
  gsa_calls,        \* per thread: provider calls issued by the current logical attempt
  gsa_result,       \* per thread: how the last get_structured_answer ended
  recent_calls,     \* timestamps of the provider calls issued in the last 60 seconds
  calls_made,       \* number of provider calls issued so far
  gsa_entries       \* number of calls of get_structured_answer so far

oracleVars == <<now, rpm_limit, tpm_limit, rpd_limit, requests_minute, requests_day,
                gsa_pc, gsa_attempt, max_tokens, wait_time, wake_at, gsa_calls,
                gsa_result, recent_calls, calls_made, gsa_entries>>

VARIABLES
  stage_pc,              \* position of the session inside solve_quiz_sequence_core
  outcome,               \* how the session ended
  current_url,
  det_applies,           \* the page has a canvas and a key formula
  det_idx,               \* conversion methods tried on this page
  attempt,               \* iterations of the attempt loop begun on this page
  past_attempt_feedback,
  stage_feedback_start,  \* len(past_attempt_feedback) when the page was fetched
  stage_oracle_calls,    \* calls of get_structured_answer that ran on this page
  stage_only_rejections, \* every submission of this page was answered correct=false
  fetches,               \* pages fetched so far
  accepted_next,         \* next URL of the response just evaluated as correct
  final_statuses,        \* statuses of the correct=true, null-URL responses received
  det_submitted,         \* conversion methods posted on this page, in order
  error_context,         \* the error_context of the last call of get_structured_answer
  exhausted_stages,      \* stage numbers of the stages exhausted since the last acceptance
  last_action            \* the step the session took last

solverVars == <<stage_pc, outcome, current_url, det_applies, det_idx, attempt,
                past_attempt_feedback, stage_feedback_start, stage_oracle_calls,
                stage_only_rejections, fetches, accepted_next, final_statuses,
                det_submitted, error_context, exhausted_stages, last_action>>

VARIABLES
  MASTER_SECRET,    \* os.getenv("MASTER_QUIZ_SECRET")
  api_pc,           \* per request: where its handling stands
  body,             \* per request: the JSON body received
  response,         \* per request: the HTTP response sent
  secret_checked,   \* per request: the secret comparison was reached
  submitted,        \* per request: executor.submit calls made for it
  executor_queue,   \* work items of the executor not yet picked up
  chain             \* per request: state of its solver session

apiVars == <<MASTER_SECRET, api_pc, body, response, secret_checked, submitted,
             executor_queue, chain>>

VARIABLES
  fmt_pc,       \* how often format_answer_with_padding was applied
  fmt_answer,   \* the raw answer
  fmt_page,     \* the examples and placeholders of the page, in page order
  fmt_once,     \* format_answer_with_padding(answer, page)
  fmt_twice,    \* format_answer_with_padding(fmt_once, page)
  submission_answer,   \* submission_data["answer"] of the POST
  feedback_submitted   \* the value after "Submitted:" in the feedback entry

formatVars == <<fmt_pc, fmt_answer, fmt_page, fmt_once, fmt_twice, submission_answer,
                feedback_submitted>>

VARIABLES
  san_pc,            \* position in the cleanup of llm_service.py:494-538
  original_answer,   \* str(result.final_answer).strip()
  final_answer_str,  \* the string being cleaned
  san_error          \* the exception that left get_structured_answer

sanitizeVars == <<san_pc, original_answer, final_answer_str, san_error>>

VARIABLES
  media_pc,           \* position of the stage: scrape, call, download, exited
  media_files,        \* number of media files detect_media_files finds
  media_attempt,      \* attempt of the stage that calls get_structured_answer
  media_idx,          \* index of the next media file to download
  downloaded_files,   \* the list of llm_service.py:351
  canvas_image_path,  \* the path returned by scrape_quiz_page
  temp_files,         \* the temporary files that exist
  exit_path           \* how the last call of get_structured_answer ended

mediaVars == <<media_pc, media_files, media_attempt, media_idx, downloaded_files,
               canvas_image_path, temp_files, exit_path>>

VARIABLES
  rc_now,       \* time.time()
  rc_minute,    \* rate_limiter.requests_minute, shared by the worker threads
  rc_pc,        \* position of each worker thread inside the limiter
  rc_local_now, \* the local now of _clean_old_requests
  rc_error,     \* the exception a thread's limiter call raised
  rc_lost,      \* entries removed from the window before they were 60 s old
  rc_ops        \* limiter calls started

raceVars == <<rc_now, rc_minute, rc_pc, rc_local_now, rc_error, rc_lost, rc_ops>>

VARIABLES
  bg_pc,            \* position of the stage: start, deterministic, attempts, done
  bg_det_applies,   \* the page has a canvas and a key formula
  bg_base_timeout,  \* base_timeout of the page (text-only or multimodal)
  bg_det_idx,       \* conversion methods tried
  bg_attempt,       \* iterations of the attempt loop begun
  stage_elapsed,    \* seconds since stage_deadline was set
  attempt_timeout   \* the timeout of the last iteration, in twelfths of a second

budgetVars == <<bg_pc, bg_det_applies, bg_base_timeout, bg_det_idx, bg_attempt,
                stage_elapsed, attempt_timeout>>

VARIABLES
  rt_pc,          \* position inside get_structured_answer: idle, cleared, inflight, backoff
  rt_attempt,     \* index of the retry loop
  rt_max_tokens,  \* token ceiling of the logical attempt
  rt_error,       \* what the last provider call raised ("none": nothing)
  rt_result,      \* how the last get_structured_answer ended
  rt_cleared,     \* wait_if_needed has returned since the last provider call
  rt_minute,      \* rate_limiter.requests_minute
  rt_day,         \* rate_limiter.requests_day
  rt_successes,   \* provider calls that completed successfully
  rt_entries      \* calls of get_structured_answer so far

retryVars == <<rt_pc, rt_attempt, rt_max_tokens, rt_error, rt_result, rt_cleared,
               rt_minute, rt_day, rt_successes, rt_entries>>

VARIABLES
  at_pc,        \* loop, next_stage (break), returned, exhausted, crashed
  at_attempt,   \* iterations of the attempt loop completed without acceptance
  at_feedback,  \* past_attempt_feedback
  at_url,       \* current_url
  at_last       \* how the last iteration went: what was raised or answered

attemptVars == <<at_pc, at_attempt, at_feedback, at_url, at_last>>

VARIABLES
  ep_pc,              \* scraped, det_posted, resolved
  ep_current_url,     \* current_url, the challenge page
  ep_submission_url,  \* submission_url returned by scrape_quiz_page
  ep_script,          \* the endpoint the canvas script names, as written there
  ep_det_target,      \* target_url of the deterministic POSTs
  ep_loop_target      \* submission_url of the attempt loop's POST

endpointVars == <<ep_pc, ep_current_url, ep_submission_url, ep_script, ep_det_target,
                  ep_loop_target>>

VARIABLES
  sg_rate_limiter,  \* the module global _rate_limiter: NoInstance (None) or an instance
  sg_pc,            \* per thread: position inside get_rate_limiter and after it
  sg_got,           \* per thread: the instance get_rate_limiter returned
  sg_instances,     \* GeminiRateLimiter objects constructed so far
  sg_records        \* per instance: entries appended to its windows

singletonVars == <<sg_rate_limiter, sg_pc, sg_got, sg_instances, sg_records>>

VARIABLES
  ss_now,       \* time.time()
  ss_pc,        \* per session: start (top of the while loop), loop, done
  ss_url,       \* per session: current_url
  ss_feedback,  \* per session: past_attempt_feedback
  ss_deadline,  \* per session: stage_deadline
  ss_attempt    \* per session: iterations of the attempt loop completed

sessionsVars == <<ss_now, ss_pc, ss_url, ss_feedback, ss_deadline, ss_attempt>>

vars == <<oracleVars, solverVars, apiVars, formatVars, sanitizeVars, mediaVars, raceVars, budgetVars, retryVars, attemptVars, endpointVars, singletonVars, sessionsVars>>

\* what the steps of each specification leave alone
oracleFrame == <<solverVars, apiVars, formatVars, sanitizeVars, mediaVars, raceVars, budgetVars, retryVars, attemptVars, endpointVars, singletonVars, sessionsVars>>

solverFrame == <<oracleVars, apiVars, formatVars, sanitizeVars, mediaVars, raceVars, budgetVars, retryVars, attemptVars, endpointVars, singletonVars, sessionsVars>>

apiFrame == <<oracleVars, solverVars, formatVars, sanitizeVars, mediaVars, raceVars, budgetVars, retryVars, attemptVars, endpointVars, singletonVars, sessionsVars>>

formatFrame == <<oracleVars, solverVars, apiVars, sanitizeVars, mediaVars, raceVars, budgetVars, retryVars, attemptVars, endpointVars, singletonVars, sessionsVars>>

sanitizeFrame == <<oracleVars, solverVars, apiVars, formatVars, mediaVars, raceVars, budgetVars, retryVars, attemptVars, endpointVars, singletonVars, sessionsVars>>

mediaFrame == <<oracleVars, solverVars, apiVars, formatVars, sanitizeVars, raceVars, budgetVars, retryVars, attemptVars, endpointVars, singletonVars, sessionsVars>>

raceFrame == <<oracleVars, solverVars, apiVars, formatVars, sanitizeVars, mediaVars, budgetVars, retryVars, attemptVars, endpointVars, singletonVars, sessionsVars>>

budgetFrame == <<oracleVars, solverVars, apiVars, formatVars, sanitizeVars, mediaVars, raceVars, retryVars, attemptVars, endpointVars, singletonVars, sessionsVars>>

retryFrame == <<oracleVars, solverVars, apiVars, formatVars, sanitizeVars, mediaVars, raceVars, budgetVars, attemptVars, endpointVars, singletonVars, sessionsVars>>

attemptFrame == <<oracleVars, solverVars, apiVars, formatVars, sanitizeVars, mediaVars, raceVars, budgetVars, retryVars, endpointVars, singletonVars, sessionsVars>>

endpointFrame == <<oracleVars, solverVars, apiVars, formatVars, sanitizeVars, mediaVars, raceVars, budgetVars, retryVars, attemptVars, singletonVars, sessionsVars>>

singletonFrame == <<oracleVars, solverVars, apiVars, formatVars, sanitizeVars, mediaVars, raceVars, budgetVars, retryVars, attemptVars, endpointVars, sessionsVars>>

sessionsFrame == <<oracleVars, solverVars, apiVars, formatVars, sanitizeVars, mediaVars, raceVars, budgetVars, retryVars, attemptVars, endpointVars, singletonVars>>

(***************************************************************************)
(* rate_limiter.py                                                         *)
(***************************************************************************)
Max(a, b) == IF a >= b THEN a ELSE b

MaxOf(S) == CHOOSE x \in S : \A y \in S : y <= x

\* datetime.fromtimestamp(t).date(), as a day number
DateOf(t) == t \div DAY_SECONDS

RECURSIVE CleanMinute(_, _)
\* while self.requests_minute and now - self.requests_minute[0][0] > 60: popleft()
CleanMinute(q, t) ==
  IF q # <<>> /\ t - q[1][1] > MINUTE_WINDOW THEN CleanMinute(Tail(q), t) ELSE q

RECURSIVE CleanDay(_, _)
\* while self.requests_day: popleft() while the head is of an earlier date
CleanDay(q, t) ==
  IF q # <<>> /\ DateOf(q[1][1]) < DateOf(t) THEN CleanDay(Tail(q), t) ELSE q

RECURSIVE SumTokens(_)
SumTokens(q) == IF q = <<>> THEN 0 ELSE q[1][2] + SumTokens(Tail(q))

\* get_current_usage, after its _clean_old_requests
get_current_usage(qm, qd) ==
  [rpm |-> Len(qm), tpm |-> SumTokens(qm), rpd |-> Len(qd)]

\* the RPM check without the one-request buffer
NearRpmLimit_NoBuffer(rpm_current, limit) == rpm_current >= limit

\* the RPM check: rpm_current >= self.rpm_limit - 1
NearRpmLimit(rpm_current, limit) == rpm_current >= limit - 1

\* the TPM check: tpm_current + estimated_tokens >= self.tpm_limit - 50_000
NearTpmLimit(tpm_current, estimated_tokens, limit) ==
  tpm_current + estimated_tokens >= limit - TPM_BUFFER

\* 60 - (time.time() - oldest_request), floored at 0
WaitUntilOldestExpires(qm, t) == Max(0, MINUTE_WINDOW - (t - qm[1][1]))

\* seconds until the next midnight
SecondsUntilMidnight(t) == (DateOf(t) + 1) * DAY_SECONDS - t

\* _calculate_wait_time on the cleaned windows qm, qd at time t:
\* [raised |-> TRUE] for the IndexError of requests_minute[0] on an empty deque,
\* otherwise the wait in seconds.
calculate_wait_time(qm, qd, t, estimated_tokens, rpm, tpm, rpd) ==
  LET usage == get_current_usage(qm, qd)
      rpmHit == NearRpmLimit(usage.rpm, rpm)
      tpmHit == NearTpmLimit(usage.tpm, estimated_tokens, tpm) /\ qm # <<>>
      wait_times == (IF rpmHit /\ qm # <<>> THEN {WaitUntilOldestExpires(qm, t)} ELSE {})
                    \cup (IF tpmHit THEN {WaitUntilOldestExpires(qm, t)} ELSE {})
  IN  IF rpmHit /\ qm = <<>>
        THEN [raised |-> TRUE, wait |-> 0]
        ELSE IF usage.rpd >= rpd
          THEN [raised |-> FALSE, wait |-> SecondsUntilMidnight(t)]
          ELSE [raised |-> FALSE,
                wait |-> IF wait_times # {} THEN MaxOf(wait_times) ELSE 0]

\* record_request: append to both windows, then _clean_old_requests
RecordMinute(qm, t, tokens_used) == CleanMinute(Append(qm, <<t, tokens_used>>), t)

\* a record_request that leaves the day window without the new entry
RecordDay_NoAppend(qd, t, tokens_used) == CleanDay(qd, t)

RecordDay(qd, t, tokens_used) == CleanDay(Append(qd, <<t, tokens_used>>), t)

(***************************************************************************)
(* llm_service.py: get_structured_answer, from the rate-limiter clearance  *)
(* to the end of the retry loop.  The locals of a call (gsa_attempt,       *)
(* max_tokens, wait_time, wake_at, gsa_calls) are reset when it ends.      *)
(***************************************************************************)
OracleInit ==
  /\ now = StartTime
  /\ \E c \in Configs : rpm_limit = c.rpm /\ tpm_limit = c.tpm /\ rpd_limit = c.rpd
  /\ requests_minute = <<>>
  /\ requests_day = <<>>
  /\ gsa_pc = [s \in Sessions |-> "idle"]
  /\ gsa_attempt = [s \in Sessions |-> 0]
  /\ max_tokens = [s \in Sessions |-> 0]
  /\ wait_time = [s \in Sessions |-> -1]
  /\ wake_at = [s \in Sessions |-> NoWake]
  /\ gsa_calls = [s \in Sessions |-> 0]
  /\ gsa_result = [s \in Sessions |-> "none"]
  /\ recent_calls = <<>>
  /\ calls_made = 0
  /\ gsa_entries = 0

\* the calls of log that were issued within the minute window ending at t
RecentAt(log, t) == SelectSeq(log, LAMBDA ts : t - ts <= MINUTE_WINDOW)

\* time passes; sleeps whose end is reached are over
Tick ==
  /\ now + TickStep <= EndTime
  /\ now' = now + TickStep
  /\ wake_at' = [s \in Sessions |-> IF wake_at[s] <= now' THEN NoWake ELSE wake_at[s]]
  /\ recent_calls' = RecentAt(recent_calls, now')
  /\ UNCHANGED <<rpm_limit, tpm_limit, rpd_limit, requests_minute, requests_day,
                 gsa_pc, gsa_attempt, max_tokens, wait_time, gsa_calls,
                 gsa_result, calls_made, gsa_entries>>
  /\ UNCHANGED oracleFrame

\* get_structured_answer ends for thread s with the given result
GsaEnds(s, result) ==
  /\ gsa_pc' = [gsa_pc EXCEPT ![s] = "idle"]
  /\ gsa_result' = [gsa_result EXCEPT ![s] = result]
  /\ gsa_attempt' = [gsa_attempt EXCEPT ![s] = 0]
  /\ max_tokens' = [max_tokens EXCEPT ![s] = 0]
  /\ wait_time' = [wait_time EXCEPT ![s] = -1]
  /\ wake_at' = [wake_at EXCEPT ![s] = NoWake]
  /\ gsa_calls' = [gsa_calls EXCEPT ![s] = 0]

\* get_structured_answer is entered and runs up to the await inside
\* rate_limiter.wait_if_needed(estimated_tokens=max_tokens)
GsaWaitIfNeeded(s) ==
  /\ gsa_pc[s] = "idle"
  /\ gsa_entries < MaxEntries
  /\ gsa_entries' = gsa_entries + 1
  /\ LET tokens == PageTokenLimit[s]
           qm == CleanMinute(requests_minute, now)
           qd == CleanDay(requests_day, now)
           r  == calculate_wait_time(qm, qd, now, tokens, rpm_limit, tpm_limit, rpd_limit)
     IN  /\ requests_minute' = qm
         /\ requests_day' = qd
         /\ IF r.raised
              THEN GsaEnds(s, "raised")
              ELSE /\ gsa_pc' = [gsa_pc EXCEPT ![s] = "cleared"]
                   /\ gsa_result' = [gsa_result EXCEPT ![s] = "none"]
                   /\ max_tokens' = [max_tokens EXCEPT ![s] = tokens]
                   /\ wait_time' = [wait_time EXCEPT ![s] = r.wait]
                   /\ wake_at' = [wake_at EXCEPT ![s] =
                                    IF r.wait > 0 THEN now + r.wait ELSE NoWake]
                   /\ UNCHANGED <<gsa_attempt, gsa_calls>>
  /\ UNCHANGED <<now, rpm_limit, tpm_limit, rpd_limit, recent_calls, calls_made>>
  /\ UNCHANGED oracleFrame

\* LLM_CLIENT.models.generate_content is called: after the rate limiter's sleep
\* (no second look at the windows) or after a backoff sleep
GsaCallOracle(s) ==
  /\ gsa_pc[s] \in {"cleared", "backoff"}
  /\ wake_at[s] = NoWake
  /\ calls_made < MaxCalls
  /\ gsa_pc' = [gsa_pc EXCEPT ![s] = "inflight"]
  /\ gsa_calls' = [gsa_calls EXCEPT ![s] = @ + 1]
  /\ wait_time' = [wait_time EXCEPT ![s] = -1]
  /\ recent_calls' = Append(recent_calls, now)
  /\ calls_made' = calls_made + 1
  /\ UNCHANGED <<now, rpm_limit, tpm_limit, rpd_limit, requests_minute, requests_day,
                 gsa_attempt, max_tokens, wake_at, gsa_result, gsa_entries>>
  /\ UNCHANGED oracleFrame

\* the provider answers: record_request(tokens_used=max_tokens), break; then the
\* response is parsed (ValueError when response.parsed is empty)
GsaOracleSucceeds(s) ==
  /\ gsa_pc[s] = "inflight"
  /\ requests_minute' = RecordMinute(requests_minute, now, max_tokens[s])
  /\ requests_day' = RecordDay(requests_day, now, max_tokens[s])
  /\ \E parsed \in BOOLEAN : GsaEnds(s, IF parsed THEN "returned" ELSE "raised")
  /\ UNCHANGED <<now, rpm_limit, tpm_limit, rpd_limit, recent_calls, calls_made, gsa_entries>>
  /\ UNCHANGED oracleFrame

\* a retry loop that runs one iteration too many
RetriesLeft_OneMore(i) == i < max_retries

\* whether the retry loop has another iteration after the one of index i
RetriesLeft(i) == i < max_retries - 1

\* await asyncio.sleep(retry_delays[attempt]), then the next iteration
RetryAfterDelay(s) ==
  /\ gsa_pc' = [gsa_pc EXCEPT ![s] = "backoff"]
  /\ wake_at' = [wake_at EXCEPT ![s] = now + retry_delays[gsa_attempt[s] + 1]]
  /\ gsa_attempt' = [gsa_attempt EXCEPT ![s] = @ + 1]
  /\ UNCHANGED <<gsa_result, max_tokens, wait_time, gsa_calls>>

\* except ServerError with '503' or 'overloaded': sleep and retry, or give up
\* with ValueError("LLM service unavailable ...") after the last iteration
GsaOracleOverloaded(s) ==
  /\ gsa_pc[s] = "inflight"
  /\ IF RetriesLeft(gsa_attempt[s]) THEN RetryAfterDelay(s) ELSE GsaEnds(s, "unavailable")
  /\ UNCHANGED <<now, rpm_limit, tpm_limit, rpd_limit, requests_minute, requests_day,
                 recent_calls, calls_made, gsa_entries>>
  /\ UNCHANGED oracleFrame

\* except ServerError without '503'/'overloaded': raise at once
GsaOracleServerError(s) ==
  /\ gsa_pc[s] = "inflight"
  /\ GsaEnds(s, "raised")
  /\ UNCHANGED <<now, rpm_limit, tpm_limit, rpd_limit, requests_minute, requests_day,
                 recent_calls, calls_made, gsa_entries>>
  /\ UNCHANGED oracleFrame

\* except Exception: raise on the last iteration, else sleep and go on
GsaOracleOtherError(s) ==
  /\ gsa_pc[s] = "inflight"
  /\ IF gsa_attempt[s] = max_retries - 1 THEN GsaEnds(s, "raised") ELSE RetryAfterDelay(s)
  /\ UNCHANGED <<now, rpm_limit, tpm_limit, rpd_limit, requests_minute, requests_day,
                 recent_calls, calls_made, gsa_entries>>
  /\ UNCHANGED oracleFrame

\* the caller's asyncio.wait_for cancels the coroutine at an await: CancelledError
\* passes the except Exception clauses
GsaCancelled(s) ==
  /\ \/ gsa_pc[s] = "inflight"
     \/ gsa_pc[s] \in {"cleared", "backoff"} /\ wake_at[s] # NoWake
  /\ GsaEnds(s, "cancelled")
  /\ UNCHANGED <<now, rpm_limit, tpm_limit, rpd_limit, requests_minute, requests_day,
                 recent_calls, calls_made, gsa_entries>>
  /\ UNCHANGED oracleFrame

OracleNext ==
  \/ Tick
  \/ \E s \in Sessions : GsaWaitIfNeeded(s)
  \/ \E s \in Sessions : GsaCallOracle(s)
  \/ \E s \in Sessions : GsaOracleSucceeds(s)
  \/ \E s \in Sessions : GsaOracleOverloaded(s)
  \/ \E s \in Sessions : GsaOracleServerError(s)
  \/ \E s \in Sessions : GsaOracleOtherError(s)
  \/ \E s \in Sessions : GsaCancelled(s)

(***************************************************************************)
(* Claims on the rate limiter and the retry controller (SpecOracle).       *)
(***************************************************************************)

\* C1: the rate limiter never admits a call that pushes the number of provider
\* calls issued in the last 60 seconds above rpm_limit.
C1_NeverAboveRpm == Len(recent_calls) <= rpm_limit

\* C3 as stated: the Oracle invocations of a stage, internal retries included,
\* number at most MAX_ATTEMPTS; a logical attempt is part of one stage.
C3_AtMostMaxAttemptsCalls == \A s \in Sessions : gsa_calls[s] <= MAX_ATTEMPTS

\* C3 amended: one logical attempt (one call of get_structured_answer) issues at
\* most max_retries Oracle invocations, one per iteration of its retry loop.
C3_AtMostMaxRetriesCalls ==
  \A s \in Sessions :
    /\ gsa_attempt[s] < max_retries
    /\ gsa_calls[s] <= gsa_attempt[s] + 1
    /\ gsa_calls[s] <= max_retries

C3_Witness == \E s \in Sessions : gsa_calls[s] = max_retries /\ gsa_pc[s] = "inflight"

\* wait_if_needed has just computed its wait for thread s on the cleaned windows
WaitComputed(s) == gsa_pc[s] = "idle" /\ gsa_pc'[s] = "cleared"

\* 60 seconds minus the age of the oldest entry of the minute window
TimeUntilOldestExpires == MINUTE_WINDOW - (now - requests_minute'[1][1])

\* C10 as stated: at rpm_limit - 1 requests in the window and an estimate below
\* the remaining TPM the wait is zero; at rpm_limit requests the wait is nonzero
\* and equals the time until the oldest entry expires.
C10_ZeroWaitBelowLimit ==
  [][\A s \in Sessions : WaitComputed(s) =>
       /\ (/\ Len(requests_minute') = rpm_limit - 1
           /\ max_tokens'[s] < tpm_limit - SumTokens(requests_minute'))
          => wait_time'[s] = 0
       /\ Len(requests_minute') = rpm_limit
          => wait_time'[s] > 0 /\ wait_time'[s] = TimeUntilOldestExpires]_vars

\* C10 amended: with at most rpm_limit - 2 requests in the window, tokens plus
\* estimate below tpm_limit - 50000 and the day window below rpd_limit the wait is
\* zero; with at least rpm_limit - 1 requests (one at least) and the day window
\* below rpd_limit the wait is the time until the oldest entry expires, floored
\* at zero (zero only when that entry is exactly 60 seconds old).
C10_OneRequestBuffer ==
  [][\A s \in Sessions : (WaitComputed(s) /\ Len(requests_day') < rpd_limit) =>
       /\ (/\ Len(requests_minute') <= rpm_limit - 2
           /\ SumTokens(requests_minute') + max_tokens'[s] < tpm_limit - TPM_BUFFER)
          => wait_time'[s] = 0
       /\ (Len(requests_minute') >= rpm_limit - 1 /\ Len(requests_minute') >= 1)
          => /\ wait_time'[s] = Max(0, TimeUntilOldestExpires)
             /\ (wait_time'[s] = 0 <=> now - requests_minute'[1][1] = MINUTE_WINDOW)]_vars

C10_Witness ==
  \E s \in Sessions :
    /\ gsa_pc[s] = "cleared"
    /\ Len(requests_minute) = rpm_limit
    /\ Len(requests_day) < rpd_limit
    /\ wait_time[s] > 0
    /\ wait_time[s] = MINUTE_WINDOW - (now - requests_minute[1][1])

\* C24: the wait computed by wait_if_needed is the maximum of the waits that
\* apply (RPM, TPM, RPD until the day boundary): with the RPD ceiling reached
\* together with an RPM or TPM condition it is at least as long as each.
C24_WaitIsMaximum ==
  [][\A s \in Sessions : WaitComputed(s) =>
       LET qm == requests_minute'
           usage == get_current_usage(qm, requests_day')
           minuteHit == \/ NearRpmLimit(usage.rpm, rpm_limit)
                        \/ NearTpmLimit(usage.tpm, max_tokens'[s], tpm_limit)
           applicable ==
             (IF minuteHit /\ qm # <<>> THEN {WaitUntilOldestExpires(qm, now)} ELSE {})
             \cup (IF usage.rpd >= rpd_limit THEN {SecondsUntilMidnight(now)} ELSE {})
       IN  \A w \in applicable : wait_time'[s] >= w]_vars

\* C40: wait_if_needed never raises, whatever the positive limits and the
\* reachable windows: every call of it returns and clears its thread, also
\* with an empty minute window and rpm_limit = 1.
C40_WaitIfNeededNeverRaises ==
  [][gsa_entries' # gsa_entries
       => \E s \in Sessions : gsa_pc[s] = "idle" /\ gsa_pc'[s] = "cleared"]_vars

\* thread s issues a provider call in this step
CallAdmitted(s) == gsa_pc[s] # "inflight" /\ gsa_pc'[s] = "inflight"

\* C16: the tokens recorded in the last 60 seconds never exceed tpm_limit, and
\* a call is admitted only if the window's tokens plus the call's estimate are
\* below tpm_limit - 50000, also when the window is empty and after a wait.
C16_TpmBufferHonoured ==
  [][/\ SumTokens(CleanMinute(requests_minute', now')) <= tpm_limit
     /\ \A s \in Sessions : CallAdmitted(s) =>
          SumTokens(CleanMinute(requests_minute, now)) + max_tokens[s]
            < tpm_limit - TPM_BUFFER]_vars

\* C17: when the day window holds rpd_limit requests the computed wait is the
\* time until the next calendar-day boundary, and no provider call is admitted
\* for any session while the day window is full.
C17_NoCallAtRpdLimit ==
  [][\A s \in Sessions :
       /\ (WaitComputed(s) /\ Len(requests_day') >= rpd_limit)
            => wait_time'[s] = SecondsUntilMidnight(now)
       /\ CallAdmitted(s) => Len(CleanDay(requests_day, now)) < rpd_limit]_vars

\* the backoff sleeps get_structured_answer has made for thread s: the retry
\* loop sleeps retry_delays[attempt] at the end of iteration attempt
SleptDelays(s) == SubSeq(retry_delays, 1, gsa_attempt[s])

\* the overload failure is surfaced to the caller of thread s in this step
OverloadSurfaced(s) == gsa_pc[s] = "inflight" /\ gsa_result'[s] = "unavailable"

\* C20: on 503/overloaded the call is retried up to 5 times with sleeps of 2,
\* 4, 8, 16 and 30 seconds before the successive retries, and the failure is
\* surfaced only after all of them failed.
C20_FiveBackoffRetries ==
  [][\A s \in Sessions : OverloadSurfaced(s) =>
       /\ SleptDelays(s) = retry_delays
       /\ gsa_calls[s] = 1 + Len(retry_delays)]_vars

(***************************************************************************)
(* solver.py: solve_quiz_sequence_core, one session.                       *)
(*                                                                         *)
(* A URL is represented by its path; a submission response by its status,  *)
(* its 'correct' member and its 'url' member.  A feedback entry keeps the   *)
(* kind of its text and the attempt number the text carries; the entries   *)
(* of the deterministic solver are not told apart by conversion method.    *)
(***************************************************************************)
\* the last stage of the custom quiz: if stage_num >= 32
LAST_STAGE == 32

HTTP_OK == 200
\* the status custom_quiz_server gives a wrong answer
HTTP_BAD_REQUEST == 400

\* the conversion methods of try_deterministic_key_submission, in order
conversion_methods ==
  << "full_hex", "digest_big", "first8_hex", "last8_hex", "first8_bytes_big",
     "last8_bytes_big", "first4_hex", "last4_hex", "first8_little", "last8_little" >>

\* the URLs of the chain: two with a stage number, one without
Urls == {"/stage31", "/stage32", "/demo"}

\* a null, absent or empty URL
NoUrl == ""

\* re.search(r'stage(\d+)', url) finds nothing
NoStage == -1

\* int(stage_match.group(1))
stage_num(url) ==
  CASE url = "/stage31" -> 31
    [] url = "/stage32" -> 32
    [] OTHER -> NoStage

\* re.sub(r'stage\d+', f'stage{next_stage}', current_url)
StageUrl(next_stage) ==
  CASE next_stage = 31 -> "/stage31"
    [] next_stage = 32 -> "/stage32"

\* what the submission target may answer
Responses ==
  [status : {HTTP_OK, HTTP_BAD_REQUEST}, correct : {"true", "false", "absent"},
   url : Urls \cup {NoUrl}]

\* the parameters of llm_service.get_structured_answer
GsaParameters ==
  {"question_text", "scraped_data", "email", "secret", "page_url", "error_feedback",
   "use_fast_model", "raw_html"}

\* the keyword arguments of the call in the attempt loop
CallKeywords ==
  {"question_text", "scraped_data", "email", "secret", "page_url", "error_feedback",
   "use_fast_model", "raw_html", "has_canvas", "canvas_image_path"}

\* Python binds the call only if every keyword names a parameter; otherwise
\* the call expression raises TypeError and the coroutine is never created
CallBinds == CallKeywords \subseteq GsaParameters

SolverInit ==
  /\ stage_pc = "fetch"
  /\ outcome = "running"
  /\ current_url \in Urls
  /\ det_applies = FALSE
  /\ det_idx = 0
  /\ attempt = 0
  /\ past_attempt_feedback = <<>>
  /\ stage_feedback_start = 0
  /\ stage_oracle_calls = 0
  /\ stage_only_rejections = TRUE
  /\ fetches = 0
  /\ accepted_next = NoUrl
  /\ final_statuses = {}
  /\ det_submitted = <<>>
  /\ error_context = <<>>
  /\ exhausted_stages = <<>>
  /\ last_action = "none"

\* the session returns or raises
SessionEnds(how) ==
  /\ stage_pc' = "done"
  /\ outcome' = how

\* top of the while loop: scrape_quiz_page returns the page
FetchPage ==
  /\ stage_pc = "fetch"
  /\ fetches < MaxFetches
  /\ fetches' = fetches + 1
  /\ stage_pc' = "deterministic"
  /\ \E formula \in BOOLEAN : det_applies' = formula
  /\ det_idx' = 0
  /\ attempt' = 0
  /\ stage_feedback_start' = Len(past_attempt_feedback)
  /\ stage_oracle_calls' = 0
  /\ stage_only_rejections' = TRUE
  /\ accepted_next' = NoUrl
  /\ last_action' = "fetch"
  /\ UNCHANGED <<outcome, current_url, past_attempt_feedback, final_statuses>>
  /\ det_submitted' = <<>>
  /\ UNCHANGED error_context
  /\ UNCHANGED exhausted_stages
  /\ UNCHANGED solverFrame

\* page.goto raises inside scrape_quiz_page: the exception leaves
\* solve_quiz_sequence_core and is logged by solve_quiz_sequence
FetchRaises ==
  /\ stage_pc = "fetch"
  /\ fetches < MaxFetches
  /\ fetches' = fetches + 1
  /\ SessionEnds("crashed")
  /\ accepted_next' = NoUrl
  /\ last_action' = "fetch"
  /\ UNCHANGED <<current_url, det_applies, det_idx, attempt, past_attempt_feedback,
                 stage_feedback_start, stage_oracle_calls, stage_only_rejections,
                 final_statuses>>
  /\ UNCHANGED <<det_submitted, error_context>>
  /\ UNCHANGED exhausted_stages
  /\ UNCHANGED solverFrame

\* a loop that stays on the same conversion method
NextMethod_Same(i) == i

\* for name, fn in conversion_methods: the index of the next method
NextMethod(i) == i + 1

\* a handling of det_result without 'if det_result is True'
ReturnsOnTrue_Never(det_result) == FALSE

\* if det_result is True: return
ReturnsOnTrue(det_result) == det_result = TRUE

\* try_deterministic_key_submission returns False: no canvas or no formula on
\* the page, or every conversion method was tried; the attempt loop is next
DetReturnsFalse ==
  /\ stage_pc = "deterministic"
  /\ ~det_applies \/ det_idx = Len(conversion_methods)
  /\ stage_pc' = "attempts"
  /\ accepted_next' = NoUrl
  /\ last_action' = "det_false"
  /\ UNCHANGED <<outcome, current_url, det_applies, det_idx, attempt,
                 past_attempt_feedback, stage_feedback_start, stage_oracle_calls,
                 stage_only_rejections, fetches, final_statuses>>
  /\ UNCHANGED <<det_submitted, error_context>>
  /\ UNCHANGED exhausted_stages
  /\ UNCHANGED solverFrame

\* requests.post of a deterministic attempt raises: no feedback, next method
DetPostRaises ==
  /\ stage_pc = "deterministic"
  /\ det_applies
  /\ det_idx < Len(conversion_methods)
  /\ det_idx' = NextMethod(det_idx)
  /\ stage_only_rejections' = FALSE
  /\ accepted_next' = NoUrl
  /\ last_action' = "post"
  /\ UNCHANGED <<stage_pc, outcome, current_url, det_applies, attempt,
                 past_attempt_feedback, stage_feedback_start, stage_oracle_calls,
                 fetches, final_statuses>>
  /\ det_submitted' = Append(det_submitted, conversion_methods[det_idx + 1])
  /\ UNCHANGED error_context
  /\ UNCHANGED exhausted_stages
  /\ UNCHANGED solverFrame

\* resp.status_code == 200 and resp_json.get('correct') is True
DetAccepted(r) == r.status = HTTP_OK /\ r.correct = "true"

\* the test on the next URL, inverted
DetResultEndsSession_Inverted(next_url) == next_url # NoUrl

\* the deterministic attempt returned True: 'if det_result is True: return'
DetResultEndsSession(next_url) == next_url = NoUrl

\* the server answered correct=false
IsRejection(r) == r.correct = "false"

\* a deterministic attempt is posted and answered by r.  Accepted: the next URL
\* becomes current_url (the while loop continues) or, without a next URL, the
\* session returns.  Otherwise a feedback entry is appended (with the follow-up
\* page of r.url, fetched best-effort, in its text) and the next method is tried.
DetResponse ==
  /\ stage_pc = "deterministic"
  /\ det_applies
  /\ det_idx < Len(conversion_methods)
  /\ \E r \in Responses :
       /\ final_statuses' = IF r.correct = "true" /\ r.url = NoUrl
                              THEN final_statuses \cup {r.status} ELSE final_statuses
       /\ stage_only_rejections' = (stage_only_rejections /\ IsRejection(r))
       /\ exhausted_stages' = IF DetAccepted(r) THEN <<>> ELSE exhausted_stages
       /\ IF DetAccepted(r)
            THEN /\ accepted_next' = r.url
                 /\ IF DetResultEndsSession(r.url)
                      THEN /\ IF ReturnsOnTrue(TRUE)
                                THEN SessionEnds("success")
                                ELSE stage_pc' = "attempts" /\ UNCHANGED outcome
                           /\ UNCHANGED current_url
                      ELSE /\ current_url' = r.url
                           /\ stage_pc' = "fetch"
                           /\ UNCHANGED outcome
                 /\ UNCHANGED <<det_idx, past_attempt_feedback>>
            ELSE /\ accepted_next' = NoUrl
                 /\ past_attempt_feedback' =
                      Append(past_attempt_feedback, [kind |-> "deterministic", attempt |-> 0])
                 /\ det_idx' = NextMethod(det_idx)
                 /\ UNCHANGED <<stage_pc, outcome, current_url>>
  /\ last_action' = "post"
  /\ UNCHANGED <<det_applies, attempt, stage_feedback_start, stage_oracle_calls, fetches>>
  /\ det_submitted' = Append(det_submitted, conversion_methods[det_idx + 1])
  /\ UNCHANGED error_context
  /\ UNCHANGED solverFrame

\* an attempt loop with one iteration more
AttemptsRemain_OneMore(n) == n <= MAX_ATTEMPTS

\* for attempt in range(MAX_ATTEMPTS)
AttemptsRemain(n) == n < MAX_ATTEMPTS

\* the exceptions the attempt loop has to do with, and their base classes
ExceptionBases ==
  [TypeError |-> {"TypeError", "Exception", "BaseException"},
   TimeoutError |-> {"TimeoutError", "Exception", "BaseException"},
   ValueError |-> {"ValueError", "Exception", "BaseException"},
   AttributeError |-> {"AttributeError", "Exception", "BaseException"},
   Exception |-> {"Exception", "BaseException"}]

\* a try statement with 'except asyncio.TimeoutError' only
CaughtInLoop_TimeoutOnly(exc) == "TimeoutError" \in ExceptionBases[exc]

\* 'except asyncio.TimeoutError' and 'except Exception' of the attempt loop
CaughtInLoop(exc) ==
  "TimeoutError" \in ExceptionBases[exc] \/ "Exception" \in ExceptionBases[exc]

\* the feedback entry the handlers append for iteration n (1-based in the text)
ExceptionFeedback(exc, n) ==
  [kind |-> IF "TimeoutError" \in ExceptionBases[exc] THEN "timeout" ELSE "internal_error",
   attempt |-> n]

\* error_context = "\n".join(past_attempt_feedback) if past_attempt_feedback
\* else None: the text is kept as the sequence of its lines, None as <<>>
ErrorContext(feedback) == IF feedback # <<>> THEN feedback ELSE <<>>

\* one iteration of the attempt loop.  The call of get_structured_answer does
\* not bind (has_canvas, canvas_image_path): TypeError is raised before
\* asyncio.wait_for runs,
\* 'except Exception' appends an internal-error entry and sleeps; nothing is
\* asked of the Oracle and nothing is submitted.
AttemptRaisesTypeError ==
  /\ stage_pc = "attempts"
  /\ AttemptsRemain(attempt)
  /\ ~CallBinds
  /\ IF CaughtInLoop("TypeError")
       THEN /\ attempt' = attempt + 1
            /\ past_attempt_feedback' =
                 Append(past_attempt_feedback, ExceptionFeedback("TypeError", attempt + 1))
            /\ UNCHANGED <<stage_pc, outcome>>
       ELSE /\ SessionEnds("crashed")
            /\ UNCHANGED <<attempt, past_attempt_feedback>>
  /\ accepted_next' = NoUrl
  /\ last_action' = "attempt"
  /\ UNCHANGED <<current_url, det_applies, det_idx,
                 stage_feedback_start, stage_oracle_calls, stage_only_rejections,
                 fetches, final_statuses>>
  /\ error_context' = ErrorContext(past_attempt_feedback)
  /\ UNCHANGED det_submitted
  /\ UNCHANGED exhausted_stages
  /\ UNCHANGED solverFrame

\* a skip that stays on the stage
NextStage_Same(n) == n

\* next_stage = stage_num + 1
NextStage(n) == n + 1

\* the else of the attempt loop: every attempt failed.  A URL with a stage
\* number below LAST_STAGE is rewritten to the next stage and the while loop
\* continues; otherwise the session returns.
StageExhausted ==
  /\ stage_pc = "attempts"
  /\ ~AttemptsRemain(attempt)
  /\ LET n == stage_num(current_url)
     IN  IF n # NoStage /\ n < LAST_STAGE
           THEN /\ current_url' = StageUrl(NextStage(n))
                /\ stage_pc' = "fetch"
                /\ UNCHANGED outcome
           ELSE SessionEnds("stopped") /\ UNCHANGED current_url
  /\ accepted_next' = NoUrl
  /\ last_action' = "exhausted"
  /\ UNCHANGED <<det_applies, det_idx, attempt, past_attempt_feedback,
                 stage_feedback_start, stage_oracle_calls, stage_only_rejections,
                 fetches, final_statuses>>
  /\ UNCHANGED <<det_submitted, error_context>>
  /\ exhausted_stages' = Append(exhausted_stages, stage_num(current_url))
  /\ UNCHANGED solverFrame

SolverNext ==
  \/ FetchPage
  \/ FetchRaises
  \/ DetReturnsFalse
  \/ DetPostRaises
  \/ DetResponse
  \/ AttemptRaisesTypeError
  \/ StageExhausted

\* the feedback entries appended since the page was fetched
StageFeedback ==
  SubSeq(past_attempt_feedback, stage_feedback_start + 1, Len(past_attempt_feedback))

(***************************************************************************)
(* Claims on the session (Spec).                                           *)
(***************************************************************************)

\* C2: current_url changes only by a submission that was evaluated as correct
\* and provided the next URL; exhaustion, timeouts and exceptions never change it.
C2_AdvanceOnlyOnCorrect ==
  [][current_url' # current_url
       => (last_action' = "post" /\ accepted_next' = current_url')]_vars

FurtherWork ==
  \/ last_action' \in {"fetch", "post"}
  \/ stage_oracle_calls' # stage_oracle_calls

\* C5 as stated: once a response with correct=true and no next URL was received,
\* the session fetches no page, asks no Oracle and submits nothing.
C5_NothingAfterFinal == [][final_statuses # {} => ~FurtherWork]_vars

\* C5 amended: a response with HTTP 200, correct=true and no next URL ends the
\* session successfully; after it the session fetches no page, asks no Oracle
\* and submits nothing.
C5_NothingAfterFinalOk ==
  [][/\ HTTP_OK \in final_statuses' => (stage_pc' = "done" /\ outcome' = "success")
     /\ HTTP_OK \in final_statuses => ~FurtherWork]_vars

C5_Witness ==
  /\ HTTP_OK \in final_statuses
  /\ last_action = "post"
  /\ accepted_next = NoUrl
  /\ stage_pc = "done"
  /\ outcome = "success"

\* C6: when the submissions of a stage were answered correct=false three times
\* in a row (or more) and the stage is abandoned, exactly MAX_ATTEMPTS Oracle
\* invocations occurred for it and its feedback is the three rejections of
\* attempts 1, 2, 3 in order.
C6_ThreeRejectionsThreeCalls ==
  (last_action = "exhausted" /\ stage_only_rejections /\ det_idx >= MAX_ATTEMPTS)
    => /\ stage_oracle_calls = MAX_ATTEMPTS
       /\ StageFeedback = << [kind |-> "rejected", attempt |-> 1],
                             [kind |-> "rejected", attempt |-> 2],
                             [kind |-> "rejected", attempt |-> 3] >>

\* an iteration of the attempt loop runs in this step
AttemptStep == attempt' = attempt + 1 \/ (stage_pc = "attempts" /\ outcome' = "crashed")

\* C19: an exception raised in an iteration of the attempt loop is recorded as
\* one feedback entry and the loop goes on (next iteration or exhaustion); it
\* never leaves the loop.  Only an exception outside the attempt loop (page
\* fetch) ends the session, caught in solve_quiz_sequence.
C19_AttemptExceptionsContained ==
  [][/\ AttemptStep =>
          /\ stage_pc' = "attempts"
          /\ outcome' = "running"
          /\ attempt' = attempt + 1
          /\ Len(past_attempt_feedback') = Len(past_attempt_feedback) + 1
          /\ past_attempt_feedback'[Len(past_attempt_feedback')] \in
               { [kind |-> k, attempt |-> attempt'] : k \in {"internal_error", "timeout"} }
          /\ current_url' = current_url
     /\ (outcome = "running" /\ outcome' = "crashed") =>
          stage_pc = "fetch" /\ stage_pc' = "done"]_vars

C19_Witness ==
  /\ stage_pc = "attempts"
  /\ outcome = "running"
  /\ attempt = 2
  /\ Len(StageFeedback) >= 2
  /\ StageFeedback[Len(StageFeedback)] = [kind |-> "internal_error", attempt |-> 2]
  /\ StageFeedback[Len(StageFeedback) - 1] = [kind |-> "internal_error", attempt |-> 1]

\* C25: on stage exhaustion the chain stops: the URL is advanced by the
\* stageN -> stageN+1 rewrite only under a test-only configuration, never in
\* the default one (the only configuration there is).
C25_ExhaustionStopsChain ==
  [][(stage_pc = "attempts" /\ last_action' = "exhausted")
       => stage_pc' = "done" /\ current_url' = current_url]_vars

\* a deterministic submission is evaluated as correct in this step
DetAcceptedStep ==
  stage_pc = "deterministic" /\ last_action' = "post" /\ det_idx' = det_idx

\* C26: on every page the deterministic solver runs before the attempt loop,
\* the only place that calls the Oracle: the loop is entered only when the
\* solver returned False, and an accepted deterministic submission (with or
\* without next URL) ends the stage with no iteration of the loop and no
\* Oracle call.
C26_DeterministicShortCircuits ==
  [][/\ (stage_pc # "attempts" /\ stage_pc' = "attempts")
          => stage_pc = "deterministic" /\ last_action' = "det_false"
     /\ AttemptStep => stage_pc = "attempts"
     /\ stage_oracle_calls' # stage_oracle_calls => stage_pc \in {"attempts", "fetch"}
     /\ DetAcceptedStep =>
          /\ stage_pc' \in {"fetch", "done"}
          /\ attempt' = 0
          /\ stage_oracle_calls' = 0]_vars

C26_Witness ==
  /\ stage_pc = "done"
  /\ outcome = "success"
  /\ last_action = "post"
  /\ det_idx > 0
  /\ attempt = 0
  /\ stage_oracle_calls = 0

\* C27: the deterministic solver posts its conversion methods in the fixed
\* order of conversion_methods, each at most once (at most 10 on a page), and
\* posts nothing after the first accepted one.
C27_VariantsInOrderOnce ==
  [][/\ Len(det_submitted') <= Len(conversion_methods)
     /\ \A i \in 1..Len(det_submitted') : det_submitted'[i] = conversion_methods[i]
     /\ (det_submitted' # det_submitted /\ det_submitted' # <<>>)
          => /\ stage_pc = "deterministic"
             /\ det_submitted' = Append(det_submitted, conversion_methods[det_idx + 1])
     /\ DetAcceptedStep => stage_pc' # "deterministic"]_vars

C27_Witness ==
  /\ last_action = "post"
  /\ stage_pc = "fetch"
  /\ accepted_next # NoUrl
  /\ det_submitted = SubSeq(conversion_methods, 1, 3)

\* C28: the error_context given to the Oracle is the feedback of the prior
\* attempts of the same stage, oldest first: empty on the first attempt of a
\* stage, never with feedback of an earlier stage.
C28_ErrorContextOfStageOnly ==
  [][AttemptStep => error_context' = StageFeedback]_vars

\* C39: while the submission target accepts nothing the session ends: every
\* exhausted stage is followed by the stage with the next larger number, the
\* session stops at an exhausted stage numbered 32 or more or without a
\* number, and a session exhausts at most 33 - N stages from stage N on (one
\* when N >= 32).
C39_ExhaustionTerminates ==
  [][LET es == exhausted_stages'
         n == Len(es)
     IN  /\ \A i \in 1..(n - 1) :
              es[i] # NoStage /\ es[i] < LAST_STAGE /\ es[i + 1] > es[i]
         /\ (n > 0 /\ (es[n] = NoStage \/ es[n] >= LAST_STAGE))
              => stage_pc' = "done" /\ outcome' = "stopped"
         /\ (n > 0 /\ es[1] # NoStage) => n <= Max(1, LAST_STAGE + 1 - es[1])
         /\ (n > 0 /\ es[1] = NoStage) => n = 1]_vars

C39_Witness ==
  /\ exhausted_stages = <<LAST_STAGE - 1, LAST_STAGE>>
  /\ stage_pc = "done"
  /\ outcome = "stopped"
  /\ fetches = 2

(***************************************************************************)
(* main.py: POST /quiz-task.  FastAPI validates the body against            *)
(* models.QuizRequest before handle_quiz_request runs; the handler has no   *)
(* await and runs in one step of the event loop.                           *)
(***************************************************************************)
\* ThreadPoolExecutor(max_workers=5)
max_workers == 5

HTTP_FORBIDDEN == 403
HTTP_UNPROCESSABLE == 422

RequestIds == 1 .. MaxRequests

\* the required fields of QuizRequest
RequiredFields == {"email", "secret", "url"}

\* the secrets a caller may send
Secrets == {"master", "wrong_secret"}

\* MASTER_QUIZ_SECRET is not set
NoSecret == "None"

\* the bodies explored: every required field present, or one of them missing
Bodies ==
  { [fields |-> f, secret |-> s, url |-> u] :
      f \in {RequiredFields} \cup {RequiredFields \ {x} : x \in RequiredFields},
      s \in Secrets, u \in Urls }

NoBody == [fields |-> {}, secret |-> "", url |-> NoUrl]

NoResponse == [status |-> 0, content |-> "none", url |-> NoUrl]

ACK_MESSAGE == "Quiz task accepted and processing in the background."

ApiInit ==
  /\ MASTER_SECRET \in {"master", NoSecret}
  /\ api_pc = [r \in RequestIds |-> "none"]
  /\ body = [r \in RequestIds |-> NoBody]
  /\ response = [r \in RequestIds |-> NoResponse]
  /\ secret_checked = [r \in RequestIds |-> FALSE]
  /\ submitted = [r \in RequestIds |-> 0]
  /\ executor_queue = <<>>
  /\ chain = [r \in RequestIds |-> "none"]

\* a POST /quiz-task arrives
RequestArrives(r) ==
  /\ api_pc[r] = "none"
  /\ \E b \in Bodies : body' = [body EXCEPT ![r] = b]
  /\ api_pc' = [api_pc EXCEPT ![r] = "received"]
  /\ UNCHANGED <<MASTER_SECRET, response, secret_checked, submitted, executor_queue, chain>>
  /\ UNCHANGED apiFrame

\* a validation that lets every body through
BodyValid_Always(b) == b.fields \subseteq RequiredFields

\* QuizRequest: email, secret and url are required
BodyValid(b) == RequiredFields \subseteq b.fields

\* the body is parsed into the payload parameter: a body that is not a
\* QuizRequest is answered 422 and the handler is not called
ValidateBody(r) ==
  /\ api_pc[r] = "received"
  /\ IF BodyValid(body[r])
       THEN /\ api_pc' = [api_pc EXCEPT ![r] = "handler"]
            /\ UNCHANGED response
       ELSE /\ api_pc' = [api_pc EXCEPT ![r] = "responded"]
            /\ response' = [response EXCEPT ![r] =
                 [status |-> HTTP_UNPROCESSABLE, content |-> "validation error", url |-> NoUrl]]
  /\ UNCHANGED <<MASTER_SECRET, body, secret_checked, submitted, executor_queue, chain>>
  /\ UNCHANGED apiFrame

\* the comparison, inverted
SecretDiffers_Inverted(secret, master) == secret = master

\* payload.secret != MASTER_SECRET
SecretDiffers(secret, master) == secret # master

\* an acknowledgement that does not echo the URL
Acknowledgement_NoUrl(url) ==
  [status |-> HTTP_OK, content |-> ACK_MESSAGE, url |-> NoUrl]

\* return {"message": ..., "url": str(payload.url)} under status_code=200
Acknowledgement(url) ==
  [status |-> HTTP_OK, content |-> ACK_MESSAGE, url |-> url]

\* handle_quiz_request: 403 on a secret that differs; otherwise
\* executor.submit(run_quiz_in_thread, payload) and the acknowledgement
HandleQuizRequest(r) ==
  /\ api_pc[r] = "handler"
  /\ api_pc' = [api_pc EXCEPT ![r] = "responded"]
  /\ secret_checked' = [secret_checked EXCEPT ![r] = TRUE]
  /\ IF SecretDiffers(body[r].secret, MASTER_SECRET)
       THEN /\ response' = [response EXCEPT ![r] =
                 [status |-> HTTP_FORBIDDEN,
                  content |-> "Forbidden: Invalid secret provided.", url |-> NoUrl]]
            /\ UNCHANGED <<submitted, executor_queue, chain>>
       ELSE /\ executor_queue' = Append(executor_queue, r)
            /\ submitted' = [submitted EXCEPT ![r] = @ + 1]
            /\ chain' = [chain EXCEPT ![r] = "queued"]
            /\ response' = [response EXCEPT ![r] = Acknowledgement(body[r].url)]
  /\ UNCHANGED <<MASTER_SECRET, body>>
  /\ UNCHANGED apiFrame

\* the sessions that occupy a worker thread
Running == {r \in RequestIds : chain[r] = "running"}

\* a free worker takes the oldest work item: run_quiz_in_thread(payload)
RunQuizInThread ==
  /\ executor_queue # <<>>
  /\ Cardinality(Running) < max_workers
  /\ chain' = [chain EXCEPT ![Head(executor_queue)] = "running"]
  /\ executor_queue' = Tail(executor_queue)
  /\ UNCHANGED <<MASTER_SECRET, api_pc, body, response, secret_checked, submitted>>
  /\ UNCHANGED apiFrame

\* how a chain may end: final acceptance, abandonment, or an exception logged
\* by solve_quiz_sequence or run_quiz_in_thread
ChainOutcomes == {"success", "abandoned", "crashed"}

\* solve_quiz_sequence returns in the worker thread
ChainEnds(r) ==
  /\ chain[r] = "running"
  /\ \E how \in ChainOutcomes : chain' = [chain EXCEPT ![r] = how]
  /\ UNCHANGED <<MASTER_SECRET, api_pc, body, response, secret_checked, submitted,
                 executor_queue>>
  /\ UNCHANGED apiFrame

ApiNext ==
  \/ \E r \in RequestIds : RequestArrives(r)
  \/ \E r \in RequestIds : ValidateBody(r)
  \/ \E r \in RequestIds : HandleQuizRequest(r)
  \/ RunQuizInThread
  \/ \E r \in RequestIds : ChainEnds(r)

(***************************************************************************)
(* Claims on the endpoint (SpecApi).                                       *)
(***************************************************************************)
\* the request was answered
Responded(r) == api_pc[r] = "responded"

\* no solver session exists for the request
NoSession(r) == submitted[r] = 0 /\ chain[r] = "none" /\ \A i \in 1 .. Len(executor_queue) : executor_queue[i] # r

\* C7: a request whose secret differs from the master secret is answered 403
\* and no solver session is started or queued for it.
C7_WrongSecretForbidden ==
  \A r \in RequestIds :
    (Responded(r) /\ BodyValid(body[r]) /\ body[r].secret # MASTER_SECRET)
      => (response[r].status = HTTP_FORBIDDEN /\ NoSession(r))

C7_Witness ==
  \E r \in RequestIds :
    /\ Responded(r)
    /\ body[r].secret = "wrong_secret"
    /\ MASTER_SECRET = "master"
    /\ response[r].status = HTTP_FORBIDDEN

\* C8: a request with the master secret is answered 200 with the acknowledgement
\* as soon as the handler runs, exactly one session is handed to the executor,
\* and the response stays what it was whatever the chain does afterwards.
C8_AcceptedOnce ==
  [][\A r \in RequestIds :
       /\ (api_pc[r] = "handler" /\ body[r].secret = MASTER_SECRET)
            => /\ api_pc'[r] \in {"handler", "responded"}
               /\ api_pc'[r] = "responded"
                    => /\ response'[r] = [status |-> HTTP_OK, content |-> ACK_MESSAGE,
                                          url |-> body[r].url]
                       /\ submitted'[r] = 1
                       /\ chain'[r] = "queued"
       /\ (Responded(r) /\ response[r].status = HTTP_OK)
            => /\ response'[r] = response[r]
               /\ submitted'[r] = 1
               /\ chain'[r] # "none"]_vars

C8_Witness ==
  \E r \in RequestIds :
    /\ Responded(r)
    /\ response[r].status = HTTP_OK
    /\ response[r].content = ACK_MESSAGE
    /\ chain[r] = "crashed"

\* C9: a body that lacks a required field is answered 422 without the secret
\* being compared, and no solver session is started.
C9_MissingFieldUnprocessable ==
  \A r \in RequestIds :
    (Responded(r) /\ ~(RequiredFields \subseteq body[r].fields))
      => /\ response[r].status = HTTP_UNPROCESSABLE
         /\ ~secret_checked[r]
         /\ NoSession(r)

C9_Witness ==
  \E r \in RequestIds :
    /\ Responded(r)
    /\ "url" \notin body[r].fields
    /\ body[r].secret = MASTER_SECRET
    /\ response[r].status = HTTP_UNPROCESSABLE

(***************************************************************************)
(* solver.py: format_answer_with_padding.                                  *)
(*                                                                         *)
(* A string is a sequence of symbols: a run of upper-case letters, a dash  *)
(* or a digit.  The page is the sequence of its finds for the prefix       *)
(* MATRIX, in page order: digit examples (MATRIX-094) and placeholders     *)
(* (MATRIX-???).                                                           *)
(***************************************************************************)
UpperSymbols == {"MATRIX"}

DigitSymbols == {"0", "9", "4"}

Symbols == UpperSymbols \cup {"-"} \cup DigitSymbols

\* the sequences over S of length up to n
SeqsUpTo(S, n) == UNION { [1 .. k -> S] : k \in 0 .. n }

\* the text a page token is found under: MATRIX-
PagePrefix == << "MATRIX" >>

\* what a page may show after MATRIX-: digits with or without a leading zero,
\* or a run of ? of some length
PageTokens ==
  { [kind |-> "digits", text |-> << "0", "9" >>],
    [kind |-> "digits", text |-> << "9", "4" >>],
    [kind |-> "placeholder", text |-> << "?" >>],
    [kind |-> "placeholder", text |-> << "?", "?" >>],
    [kind |-> "placeholder", text |-> << "?", "?", "?" >>] }

RECURSIVE TrailingDigits(_)
\* the length of the longest run of digits that ends the string
TrailingDigits(a) ==
  IF a # <<>> /\ a[Len(a)] \in DigitSymbols
    THEN 1 + TrailingDigits(SubSeq(a, 1, Len(a) - 1))
    ELSE 0

\* re.match(r'^([A-Z-]+)-(\d+)$', answer)
AnswerMatches(a) ==
  LET k == TrailingDigits(a)
  IN  /\ k >= 1
      /\ Len(a) - k >= 2
      /\ a[Len(a) - k] = "-"
      /\ \A i \in 1 .. Len(a) - k - 1 : a[i] \in UpperSymbols \cup {"-"}

\* prefix, number = match.groups()
AnswerPrefix(a) == SubSeq(a, 1, Len(a) - TrailingDigits(a) - 1)

AnswerNumber(a) == SubSeq(a, Len(a) - TrailingDigits(a) + 1, Len(a))

\* a padding that adds nothing
zfill_NoPad(number, width) == number

\* number.zfill(width)
zfill(number, width) ==
  IF Len(number) >= width
    THEN number
    ELSE [i \in 1 .. width - Len(number) |-> "0"] \o number

\* re.findall(rf'{prefix}-...', page_content): a token of the page is found
\* when the prefix is the end of the letters before its dash
FoundUnder(prefix) ==
  /\ Len(prefix) <= Len(PagePrefix)
  /\ prefix = SubSeq(PagePrefix, Len(PagePrefix) - Len(prefix) + 1, Len(PagePrefix))

\* examples = re.findall(rf'{prefix}-(\d+)', page_content)
Examples(prefix, page) ==
  IF FoundUnder(prefix) THEN SelectSeq(page, LAMBDA tok : tok.kind = "digits") ELSE <<>>

\* the matches of the placeholder patterns in the order they are tried: the
\* first pattern, rf'{prefix}-([\?X]+)' under re.IGNORECASE, finds every
\* placeholder of the page; the other three find some of them again
Placeholders(prefix, page) ==
  IF FoundUnder(prefix) THEN SelectSeq(page, LAMBDA tok : tok.kind = "placeholder") ELSE <<>>

\* example_num.startswith('0') and len(example_num) > 1
HasLeadingZero(tok) == tok.text[1] = "0" /\ Len(tok.text) > 1

\* a placeholder is taken only when it is longer than the number
PlaceholderFits_Strict(tok, number) == Len(tok.text) > Len(number)

\* if target_length >= len(number)
PlaceholderFits(tok, number) == Len(tok.text) >= Len(number)

\* f"{prefix}-{padded_number}"
Formatted(prefix, padded_number) == prefix \o << "-" >> \o padded_number

\* format_answer_with_padding(answer, page_content); the format hints of the
\* third strategy are placeholders the second strategy has already refused
format_answer_with_padding(answer, page) ==
  IF ~AnswerMatches(answer) THEN answer
  ELSE
    LET prefix == AnswerPrefix(answer)
        number == AnswerNumber(answer)
        zeros  == SelectSeq(Examples(prefix, page), HasLeadingZero)
        fits   == SelectSeq(Placeholders(prefix, page),
                            LAMBDA tok : PlaceholderFits(tok, number))
    IN  IF zeros # <<>> THEN Formatted(prefix, zfill(number, Len(zeros[1].text)))
        ELSE IF fits # <<>> THEN Formatted(prefix, zfill(number, Len(fits[1].text)))
        ELSE answer

NoAnswer == << "-" >>

FormatInit ==
  /\ fmt_pc = "raw"
  /\ fmt_answer \in SeqsUpTo(Symbols, MaxAnswerLen)
  /\ fmt_page \in SeqsUpTo(PageTokens, MaxPageTokens)
  /\ fmt_once = NoAnswer
  /\ fmt_twice = NoAnswer
  /\ submission_answer = NoAnswer
  /\ feedback_submitted = NoAnswer

\* formatted_answer = format_answer_with_padding(llm_output.final_answer, raw_html)
FormatAnswer ==
  /\ fmt_pc = "raw"
  /\ fmt_pc' = "once"
  /\ fmt_once' = format_answer_with_padding(fmt_answer, fmt_page)
  /\ UNCHANGED <<fmt_answer, fmt_page, fmt_twice, submission_answer, feedback_submitted>>
  /\ UNCHANGED formatFrame

\* the formatted answer is formatted again for the same page
FormatAgain ==
  /\ fmt_pc = "once"
  /\ fmt_pc' = "twice"
  /\ fmt_twice' = format_answer_with_padding(fmt_once, fmt_page)
  /\ UNCHANGED <<fmt_answer, fmt_page, fmt_once, submission_answer, feedback_submitted>>
  /\ UNCHANGED formatFrame

\* the formatted answer is posted and the server answers correct=false:
\* past_attempt_feedback.append(f"... Submitted: {llm_output.final_answer}")
SubmissionRejected ==
  /\ fmt_pc = "once"
  /\ fmt_pc' = "rejected"
  /\ submission_answer' = fmt_once
  /\ feedback_submitted' = fmt_answer
  /\ UNCHANGED <<fmt_answer, fmt_page, fmt_once, fmt_twice>>
  /\ UNCHANGED formatFrame

FormatNext == FormatAnswer \/ FormatAgain \/ SubmissionRejected

(***************************************************************************)
(* Claims on format_answer_with_padding (SpecFormat).                      *)
(***************************************************************************)
\* C11: formatting is idempotent: formatting a formatted answer for the same
\* page gives the formatted answer, whatever the examples and placeholders.
C11_FormatIdempotent == fmt_pc = "twice" => fmt_twice = fmt_once

C11_Witness ==
  /\ fmt_pc = "twice"
  /\ fmt_once # fmt_answer
  /\ fmt_twice = fmt_once
  /\ Len(SelectSeq(fmt_page, LAMBDA tok : tok.kind = "placeholder")) >= 2
  /\ fmt_page[1].text # fmt_page[2].text

\* C29: on correct=false the feedback entry holds the value that was submitted
\* in that attempt: the padding-normalized answer sent in the POST body.
C29_FeedbackHasSubmittedValue ==
  fmt_pc = "rejected" => feedback_submitted = submission_answer

\* the page shows MATRIX-??? and nothing else
PageShowsMatrixPlaceholder ==
  fmt_page = << [kind |-> "placeholder", text |-> << "?", "?", "?" >>] >>

\* C12 as stated: with MATRIX-??? on the page and the raw answer "94", the
\* formatted answer is "MATRIX-094".
C12_BareNumberPadded ==
  (fmt_pc # "raw" /\ PageShowsMatrixPlaceholder /\ fmt_answer = << "9", "4" >>)
    => fmt_once = << "MATRIX", "-", "0", "9", "4" >>

\* C12 amended: with MATRIX-??? on the page, the raw answer "MATRIX-94" is
\* formatted to "MATRIX-094" and the raw answer "94" is left as it is.
C12_PrefixedNumberPadded ==
  (fmt_pc # "raw" /\ PageShowsMatrixPlaceholder)
    => /\ fmt_answer = << "MATRIX", "-", "9", "4" >>
            => fmt_once = << "MATRIX", "-", "0", "9", "4" >>
       /\ fmt_answer = << "9", "4" >> => fmt_once = << "9", "4" >>

C12_Witness ==
  /\ fmt_pc = "once"
  /\ PageShowsMatrixPlaceholder
  /\ fmt_answer = << "MATRIX", "-", "9", "4" >>
  /\ fmt_once = << "MATRIX", "-", "0", "9", "4" >>

(***************************************************************************)
(* llm_service.py: cleanup of result.final_answer.                         *)
(*                                                                         *)
(* A string is a sequence of tokens: a brace, a quote character, a scalar  *)
(* text without braces and quotes, or one "key": value member of a JSON     *)
(* object (its commas and inner quotes are part of the token).  The value   *)
(* DEEP is a JSON value nested beyond the recursion limit of the           *)
(* interpreter.                                                            *)
(***************************************************************************)
DEEP == "[[[[...]]]]"

Token(kind, key, value) == [kind |-> kind, key |-> key, value |-> value]

LBrace == Token("{", "", "")

RBrace == Token("}", "", "")

DQuote == Token("\"", "", "")

SQuote == Token("'", "", "")

Scalar(text) == Token("scalar", "", text)

Member(key, value) == Token("member", key, value)

AnswerTokens ==
  { LBrace, RBrace, DQuote, SQuote, Scalar("42"),
    Member("answer", "42"), Member("secret", "7"), Member("other", "1"),
    Member("answer", DEEP) }

\* s.startswith(tok) and s.endswith(tok), for a one-character tok
Surrounded(s, tok) == Len(s) >= 1 /\ s[1] = tok /\ s[Len(s)] = tok

\* s[1:-1]
StripEnds(s) == SubSeq(s, 2, Len(s) - 1)

StartsAndEndsWithBraces(s) ==
  Len(s) >= 1 /\ s[1] = LBrace /\ s[Len(s)] = RBrace

\* the text is one JSON object
IsObject(s) ==
  /\ Len(s) >= 2
  /\ s[1] = LBrace
  /\ s[Len(s)] = RBrace
  /\ \A i \in 2 .. Len(s) - 1 : s[i].kind = "member"

\* json.loads(s): the parsed object, or the exception it raises
json_loads(s) ==
  IF ~IsObject(s)
    THEN [error |-> "JSONDecodeError", members |-> <<>>]
    ELSE IF \E i \in 2 .. Len(s) - 1 : s[i].value = DEEP
      THEN [error |-> "RecursionError", members |-> <<>>]
      ELSE [error |-> "none", members |-> StripEnds(s)]

\* key in parsed_json
HasKey(members, key) == \E i \in 1 .. Len(members) : members[i].key = key

\* str(parsed_json[key]); a repeated key keeps its last value
ValueOf(members, key) ==
  LET last == MaxOf({ i \in 1 .. Len(members) : members[i].key = key })
  IN << Scalar(members[last].value) >>

unwrap_keys == << "answer", "final_answer", "value", "result", "secret" >>

nested_keys == << "answer", "final_answer", "value", "result" >>

\* for key in keys: if key in parsed_json: ... break
FirstKey(members, keys) ==
  LET found == SelectSeq(keys, LAMBDA key : HasKey(members, key))
  IN IF found = <<>> THEN "" ELSE found[1]

\* re.search(r'\{[^}]+\}', s): the leftmost brace followed by a text without
\* closing brace and a closing brace
MatchStarts(s) ==
  { i \in 1 .. Len(s) - 2 :
      /\ s[i] = LBrace
      /\ s[i + 1] # RBrace
      /\ \E j \in i + 2 .. Len(s) : s[j] = RBrace }

json_match(s) ==
  IF MatchStarts(s) = {}
    THEN <<>>
    ELSE LET i == CHOOSE k \in MatchStarts(s) : \A m \in MatchStarts(s) : k <= m
             j == CHOOSE k \in i + 2 .. Len(s) :
                    /\ s[k] = RBrace
                    /\ \A m \in i + 2 .. k - 1 : s[m] # RBrace
         IN SubSeq(s, i, j)

SanitizeInit ==
  /\ san_pc = "parsed"
  /\ original_answer \in SeqsUpTo(AnswerTokens, MaxAnswerTokens)
  /\ final_answer_str = original_answer
  /\ san_error = "none"

\* Strategy 1: only json.JSONDecodeError is caught
UnwrapJsonRaises(error) ==
  IF error = "JSONDecodeError" THEN "none" ELSE error

UnwrapJson ==
  /\ san_pc = "parsed"
  /\ LET parsed_json ==
           IF StartsAndEndsWithBraces(final_answer_str)
             THEN json_loads(final_answer_str)
             ELSE [error |-> "JSONDecodeError", members |-> <<>>]
         key == FirstKey(parsed_json.members, unwrap_keys)
     IN IF UnwrapJsonRaises(parsed_json.error) # "none"
          THEN /\ san_pc' = "raised"
               /\ san_error' = UnwrapJsonRaises(parsed_json.error)
               /\ UNCHANGED final_answer_str
          ELSE /\ san_pc' = "unwrapped"
               /\ final_answer_str' =
                    IF parsed_json.error = "none" /\ key # ""
                      THEN ValueOf(parsed_json.members, key)
                      ELSE final_answer_str
               /\ UNCHANGED san_error
  /\ UNCHANGED original_answer
  /\ UNCHANGED sanitizeFrame

\* Strategy 2
RemoveQuotes(s) ==
  LET unquoted == IF Surrounded(s, DQuote) THEN StripEnds(s) ELSE s
  IN IF Surrounded(unquoted, SQuote) THEN StripEnds(unquoted) ELSE unquoted

RemoveSurroundingQuotes ==
  /\ san_pc = "unwrapped"
  /\ san_pc' = "unquoted"
  /\ final_answer_str' = RemoveQuotes(final_answer_str)
  /\ UNCHANGED <<original_answer, san_error>>
  /\ UNCHANGED sanitizeFrame

\* Strategy 3: a bare except swallows every exception
ExtractNested(s) ==
  LET nested_json == json_loads(json_match(s))
      key == FirstKey(nested_json.members, nested_keys)
  IN IF /\ \E i \in 1 .. Len(s) : s[i] = LBrace
        /\ \E i \in 1 .. Len(s) : s[i] = RBrace
        /\ json_match(s) # <<>>
        /\ nested_json.error = "none"
        /\ key # ""
       THEN ValueOf(nested_json.members, key)
       ELSE s

ExtractNestedJson ==
  /\ san_pc = "unquoted"
  /\ san_pc' = "returned"
  /\ final_answer_str' = ExtractNested(final_answer_str)
  /\ UNCHANGED <<original_answer, san_error>>
  /\ UNCHANGED sanitizeFrame

SanitizeNext == UnwrapJson \/ RemoveSurroundingQuotes \/ ExtractNestedJson

(***************************************************************************)
(* Claims on the response cleanup (SpecSanitize).                          *)
(***************************************************************************)
\* C13: for any final_answer string the cleanup returns a string and never
\* raises.
C13_SanitationNeverRaises == san_pc # "raised"

\* the recognized keys, in the order of the search
RecognizedKeys == << "answer", "final_answer", "value", "result", "secret" >>

\* C33: the recognized keys are searched in the order answer, final_answer,
\* value, result, secret and the first key present wins, in step 1 for the
\* whole answer and in step 3, with the same keys in the same order, for the
\* JSON fragment embedded in the string.
C33_SameKeySearchInBothSteps ==
  [][/\ (san_pc = "parsed" /\ san_pc' = "unwrapped"
          /\ StartsAndEndsWithBraces(final_answer_str)
          /\ json_loads(final_answer_str).error = "none") =>
            LET members == json_loads(final_answer_str).members
                key == FirstKey(members, RecognizedKeys)
            IN  final_answer_str' =
                  IF key # "" THEN ValueOf(members, key) ELSE final_answer_str
     /\ (san_pc = "unquoted" /\ san_pc' = "returned"
          /\ json_loads(json_match(final_answer_str)).error = "none") =>
            LET members == json_loads(json_match(final_answer_str)).members
                key == FirstKey(members, RecognizedKeys)
            IN  final_answer_str' =
                  IF key # "" THEN ValueOf(members, key) ELSE final_answer_str]_vars

(***************************************************************************)
(* Temporary media files of one stage: the canvas image saved by           *)
(* solver.scrape_quiz_page and the files downloaded by                     *)
(* llm_service.get_structured_answer.  tempfile gives every file a fresh    *)
(* name: a file is named by what it holds and the attempt that made it.     *)
(* get_structured_answer is entered by a call that binds its keywords; the  *)
(* call of the attempt loop (CallKeywords) does not and leaves by TypeError *)
(* before the body runs.                                                   *)
(***************************************************************************)
NoPath == "None"

CanvasFile == [kind |-> "canvas", attempt |-> 0, idx |-> 0]

MediaFile(a, i) == [kind |-> "media", attempt |-> a, idx |-> i]

ExitPaths == {"return", "raise", "cancelled"}

Range(f) == { f[i] : i \in DOMAIN f }

MediaInit ==
  /\ media_pc = "scrape"
  /\ media_files \in 0 .. MaxMedia
  /\ media_attempt = 1
  /\ media_idx = 0
  /\ downloaded_files = <<>>
  /\ canvas_image_path = NoPath
  /\ temp_files = {}
  /\ exit_path = "none"

\* scrape_quiz_page: a canvas with a data URL is saved with
\* NamedTemporaryFile(delete=False)
ScrapeQuizPage ==
  /\ media_pc = "scrape"
  /\ \E hasDataUrl \in BOOLEAN :
       IF hasDataUrl
         THEN /\ canvas_image_path' = CanvasFile
              /\ temp_files' = temp_files \cup {CanvasFile}
         ELSE UNCHANGED <<canvas_image_path, temp_files>>
  /\ media_pc' = "call"
  /\ UNCHANGED <<media_files, media_attempt, media_idx, downloaded_files, exit_path>>
  /\ UNCHANGED mediaFrame

\* the call of solver.py:655-666
CallRaisesTypeError ==
  /\ media_pc = "call"
  /\ ~CallBinds
  /\ media_pc' = "exited"
  /\ exit_path' = "raise"
  /\ UNCHANGED <<media_files, media_attempt, media_idx, downloaded_files,
                 canvas_image_path, temp_files>>
  /\ UNCHANGED mediaFrame

\* a call with the keywords of GsaParameters
EnterGetStructuredAnswer ==
  /\ media_pc = "call"
  /\ media_pc' = "download"
  /\ downloaded_files' = <<>>
  /\ media_idx' = 1
  /\ UNCHANGED <<media_files, media_attempt, canvas_image_path, temp_files, exit_path>>
  /\ UNCHANGED mediaFrame

\* download_media_file returns the path of a new file, or None
DownloadMediaFile ==
  /\ media_pc = "download"
  /\ media_idx <= media_files
  /\ \E downloaded \in BOOLEAN :
       IF downloaded
         THEN /\ temp_files' = temp_files \cup {MediaFile(media_attempt, media_idx)}
              /\ downloaded_files' =
                   Append(downloaded_files, MediaFile(media_attempt, media_idx))
         ELSE UNCHANGED <<temp_files, downloaded_files>>
  /\ media_idx' = media_idx + 1
  /\ UNCHANGED <<media_pc, media_files, media_attempt, canvas_image_path, exit_path>>
  /\ UNCHANGED mediaFrame

\* finally: os.remove of every path in downloaded_files
CleanupDownloaded(files) == files \ Range(downloaded_files)

\* the body is left by return, by an exception or by the CancelledError
\* that asyncio.wait_for throws into an await of the retry loop
LeaveGetStructuredAnswer ==
  /\ media_pc = "download"
  /\ \E path \in ExitPaths :
       /\ path \in {"return", "cancelled"} => media_idx > media_files
       /\ exit_path' = path
  /\ temp_files' = CleanupDownloaded(temp_files)
  /\ media_pc' = "exited"
  /\ UNCHANGED <<media_files, media_attempt, media_idx, downloaded_files,
                 canvas_image_path>>
  /\ UNCHANGED mediaFrame

\* the attempt loop calls again with the same canvas_image_path
NextMediaAttempt ==
  /\ media_pc = "exited"
  /\ exit_path \in {"raise", "cancelled"}
  /\ media_attempt < MAX_ATTEMPTS
  /\ media_attempt' = media_attempt + 1
  /\ media_pc' = "call"
  /\ UNCHANGED <<media_files, media_idx, downloaded_files, canvas_image_path,
                 temp_files, exit_path>>
  /\ UNCHANGED mediaFrame

MediaNext ==
  \/ ScrapeQuizPage
  \/ CallRaisesTypeError
  \/ EnterGetStructuredAnswer
  \/ DownloadMediaFile
  \/ LeaveGetStructuredAnswer
  \/ NextMediaAttempt

(***************************************************************************)
(* Claims on the temporary media files (SpecMedia).                        *)
(***************************************************************************)
\* C14: when the Oracle call of a stage has ended (by return, by raise or
\* cancelled by the timeout), every temporary file made for it, downloaded
\* or canvas image, is deleted.
C14_NoTempFileAfterCall == media_pc = "exited" => temp_files = {}

(***************************************************************************)
(* rate_limiter.py under the worker threads of main.executor: every        *)
(* session runs in its own thread and calls the one module-level           *)
(* rate_limiter.  The class takes no lock; a thread switch can fall         *)
(* between any two operations on the deque.  _clean_old_requests is         *)
(* modelled for the minute window, operation by operation: the truth test   *)
(* of the while condition, the read of requests_minute[0] and popleft().    *)
(***************************************************************************)
RaceInit ==
  /\ rc_now = StartTime
  /\ rc_minute = <<>>
  /\ rc_pc = [t \in Sessions |-> "idle"]
  /\ rc_local_now = [t \in Sessions |-> StartTime]
  /\ rc_error = [t \in Sessions |-> "none"]
  /\ rc_lost = {}
  /\ rc_ops = 0

RaceTick ==
  /\ rc_now < StartTime + MaxTicks * TickStep
  /\ rc_now' = rc_now + TickStep
  /\ UNCHANGED <<rc_minute, rc_pc, rc_local_now, rc_error, rc_lost, rc_ops>>
  /\ UNCHANGED raceFrame

\* record_request: requests_minute.append((now, tokens_used)), then
\* _clean_old_requests
RecordRequestAppends(t) ==
  /\ rc_pc[t] = "idle"
  /\ rc_ops < MaxLimiterOps
  /\ rc_ops' = rc_ops + 1
  /\ rc_minute' = Append(rc_minute, [time |-> rc_now, id |-> rc_ops + 1])
  /\ rc_pc' = [rc_pc EXCEPT ![t] = "clean"]
  /\ UNCHANGED <<rc_now, rc_local_now, rc_error, rc_lost>>
  /\ UNCHANGED raceFrame

\* get_current_usage: _clean_old_requests, then the counts
GetCurrentUsageStarts(t) ==
  /\ rc_pc[t] = "idle"
  /\ rc_ops < MaxLimiterOps
  /\ rc_ops' = rc_ops + 1
  /\ rc_pc' = [rc_pc EXCEPT ![t] = "clean"]
  /\ UNCHANGED <<rc_now, rc_minute, rc_local_now, rc_error, rc_lost>>
  /\ UNCHANGED raceFrame

\* now = time.time()
CleanReadsClock(t) ==
  /\ rc_pc[t] = "clean"
  /\ rc_local_now' = [rc_local_now EXCEPT ![t] = rc_now]
  /\ rc_pc' = [rc_pc EXCEPT ![t] = "test"]
  /\ UNCHANGED <<rc_now, rc_minute, rc_error, rc_lost, rc_ops>>
  /\ UNCHANGED raceFrame

\* while self.requests_minute ...
CleanTestsWindow(t) ==
  /\ rc_pc[t] = "test"
  /\ rc_pc' = [rc_pc EXCEPT ![t] = IF rc_minute = <<>> THEN "idle" ELSE "head"]
  /\ UNCHANGED <<rc_now, rc_minute, rc_local_now, rc_error, rc_lost, rc_ops>>
  /\ UNCHANGED raceFrame

Expired(entry, clock) == clock - entry.time > MINUTE_WINDOW

\* ... and now - self.requests_minute[0][0] > 60
CleanReadsHead(t) ==
  /\ rc_pc[t] = "head"
  /\ IF rc_minute = <<>>
       THEN /\ rc_error' = [rc_error EXCEPT ![t] = "IndexError"]
            /\ rc_pc' = [rc_pc EXCEPT ![t] = "idle"]
       ELSE /\ rc_pc' = [rc_pc EXCEPT ![t] =
                           IF Expired(Head(rc_minute), rc_local_now[t])
                             THEN "pop" ELSE "idle"]
            /\ UNCHANGED rc_error
  /\ UNCHANGED <<rc_now, rc_minute, rc_local_now, rc_lost, rc_ops>>
  /\ UNCHANGED raceFrame

\* self.requests_minute.popleft()
CleanPopsLeft(t) ==
  /\ rc_pc[t] = "pop"
  /\ IF rc_minute = <<>>
       THEN /\ rc_error' = [rc_error EXCEPT ![t] = "IndexError"]
            /\ rc_pc' = [rc_pc EXCEPT ![t] = "idle"]
            /\ UNCHANGED <<rc_minute, rc_lost>>
       ELSE /\ rc_minute' = Tail(rc_minute)
            /\ rc_lost' = IF Expired(Head(rc_minute), rc_now)
                            THEN rc_lost ELSE rc_lost \cup {Head(rc_minute)}
            /\ rc_pc' = [rc_pc EXCEPT ![t] = "test"]
            /\ UNCHANGED rc_error
  /\ UNCHANGED <<rc_now, rc_local_now, rc_ops>>
  /\ UNCHANGED raceFrame

RaceNext ==
  \/ RaceTick
  \/ \E t \in Sessions :
       \/ RecordRequestAppends(t)
       \/ GetCurrentUsageStarts(t)
       \/ CleanReadsClock(t)
       \/ CleanTestsWindow(t)
       \/ CleanReadsHead(t)
       \/ CleanPopsLeft(t)

(***************************************************************************)
(* Claims on the limiter under threads (SpecRace).                         *)
(***************************************************************************)
\* C15: access to the limiter's windows is serialized across the worker
\* threads: no operation reads the head of a window another session has
\* just emptied (no IndexError), and no recorded entry is lost.
C15_WindowAccessSerialized ==
  /\ \A t \in Sessions : rc_error[t] = "none"
  /\ rc_lost = {}

(***************************************************************************)
(* solver.py: the time budget of one stage.  stage_deadline is set before   *)
(* the page is scraped and the deterministic solver runs; the attempt loop  *)
(* derives attempt_timeout from the time left.  The blocking requests of a  *)
(* deterministic attempt take between no time and their timeouts; the       *)
(* scrape and the half-second pauses are counted as no time.  Timeouts are  *)
(* kept in twelfths of a second so that time_left / 2, / 3 and / 4 are      *)
(* exact.                                                                  *)
(***************************************************************************)
TWELFTHS == 12

\* no iteration of the attempt loop has computed a timeout
NoTimeout == -1000000

Min(a, b) == IF a <= b THEN a ELSE b

\* attempt_timeout of iteration n (0-based) with time_left seconds to the stage
\* deadline
AttemptTimeout(base_timeout, time_left, n) ==
  IF time_left < EMERGENCY_TIME_LEFT
    THEN Min(EMERGENCY_TIMEOUT * TWELFTHS, time_left * (TWELFTHS \div 2))
    ELSE Min(base_timeout * TWELFTHS,
             time_left * (TWELFTHS \div (MAX_ATTEMPTS - n + 1)))

\* what one deterministic attempt can take: nothing, the POST up to its
\* timeout, the POST and the follow-up GET up to theirs
DetDurations == {0, DET_POST_TIMEOUT, DET_POST_TIMEOUT + DET_FOLLOW_TIMEOUT}

BudgetInit ==
  /\ bg_pc = "start"
  /\ bg_det_applies \in BOOLEAN
  /\ bg_base_timeout \in {BASE_TIMEOUT_TEXT, BASE_TIMEOUT_MULTIMODAL}
  /\ bg_det_idx = 0
  /\ bg_attempt = 0
  /\ stage_elapsed = 0
  /\ attempt_timeout = NoTimeout

\* stage_deadline = time.time() + MAX_STAGE_TIME_SECONDS, then the scrape
StageBudgetStarts ==
  /\ bg_pc = "start"
  /\ bg_pc' = "deterministic"
  /\ stage_elapsed' = 0
  /\ UNCHANGED <<bg_det_applies, bg_base_timeout, bg_det_idx, bg_attempt, attempt_timeout>>
  /\ UNCHANGED budgetFrame

\* one conversion method is posted and not accepted
DetAttemptTakes ==
  /\ bg_pc = "deterministic"
  /\ bg_det_applies
  /\ bg_det_idx < Len(conversion_methods)
  /\ bg_det_idx' = bg_det_idx + 1
  /\ \E took \in DetDurations : stage_elapsed' = stage_elapsed + took
  /\ UNCHANGED <<bg_pc, bg_det_applies, bg_base_timeout, bg_attempt, attempt_timeout>>
  /\ UNCHANGED budgetFrame

\* one conversion method is accepted: the stage is over
DetAttemptAccepted ==
  /\ bg_pc = "deterministic"
  /\ bg_det_applies
  /\ bg_det_idx < Len(conversion_methods)
  /\ bg_pc' = "done"
  /\ UNCHANGED <<bg_det_applies, bg_base_timeout, bg_det_idx, bg_attempt,
                 stage_elapsed, attempt_timeout>>
  /\ UNCHANGED budgetFrame

\* try_deterministic_key_submission returns False
DetFails ==
  /\ bg_pc = "deterministic"
  /\ ~bg_det_applies \/ bg_det_idx = Len(conversion_methods)
  /\ bg_pc' = "attempts"
  /\ UNCHANGED <<bg_det_applies, bg_base_timeout, bg_det_idx, bg_attempt,
                 stage_elapsed, attempt_timeout>>
  /\ UNCHANGED budgetFrame

\* one iteration of the attempt loop: time_left and attempt_timeout are
\* computed, the call raises TypeError, the handler sleeps
AttemptComputesTimeout ==
  /\ bg_pc = "attempts"
  /\ AttemptsRemain(bg_attempt)
  /\ attempt_timeout' =
       AttemptTimeout(bg_base_timeout, MAX_STAGE_TIME_SECONDS - stage_elapsed, bg_attempt)
  /\ bg_attempt' = bg_attempt + 1
  /\ stage_elapsed' = stage_elapsed + ERROR_SLEEP
  /\ UNCHANGED <<bg_pc, bg_det_applies, bg_base_timeout, bg_det_idx>>
  /\ UNCHANGED budgetFrame

\* the else of the attempt loop
BudgetExhausted ==
  /\ bg_pc = "attempts"
  /\ ~AttemptsRemain(bg_attempt)
  /\ bg_pc' = "done"
  /\ UNCHANGED <<bg_det_applies, bg_base_timeout, bg_det_idx, bg_attempt,
                 stage_elapsed, attempt_timeout>>
  /\ UNCHANGED budgetFrame

BudgetNext ==
  \/ StageBudgetStarts
  \/ DetAttemptTakes
  \/ DetAttemptAccepted
  \/ DetFails
  \/ AttemptComputesTimeout
  \/ BudgetExhausted

(***************************************************************************)
(* Claims on the stage budget (SpecBudget).                                *)
(***************************************************************************)
\* C18: the deterministic solver does not use up the stage's budget: after it
\* fails the attempt loop still runs its MAX_ATTEMPTS iterations, each with a
\* positive per-attempt timeout, so that the Oracle can be invoked.
C18_DeterministicLeavesBudget ==
  [][/\ bg_attempt' = bg_attempt + 1 => attempt_timeout' > 0
     /\ (bg_pc = "attempts" /\ bg_pc' = "done") => bg_attempt = MAX_ATTEMPTS]_vars

\* C38: the timeout passed to asyncio.wait_for is strictly positive in every
\* iteration of the attempt loop, whatever time the page fetch and the
\* deterministic solver took since stage_deadline was set.
C38_TimeoutStrictlyPositive ==
  [][(bg_pc = "attempts" /\ attempt_timeout' # attempt_timeout) => attempt_timeout' > 0]_vars

\* C30: the per-attempt timeout never exceeds the base value and never
\* exceeds the remaining stage time divided by the number of remaining
\* attempts; in emergency mode (less than 30 s left) it is moreover no larger
\* than the value outside emergency mode would be.
C30_TimeoutWithinShare ==
  [][(bg_pc = "attempts" /\ bg_attempt' = bg_attempt + 1) =>
       LET time_left == MAX_STAGE_TIME_SECONDS - stage_elapsed
           remaining == MAX_ATTEMPTS - bg_attempt
           regular == Min(bg_base_timeout * TWELFTHS,
                          time_left * (TWELFTHS \div (MAX_ATTEMPTS - bg_attempt + 1)))
       IN  /\ attempt_timeout' <= bg_base_timeout * TWELFTHS
           /\ attempt_timeout' * remaining <= time_left * TWELFTHS
           /\ time_left < EMERGENCY_TIME_LEFT => attempt_timeout' <= regular]_vars

(***************************************************************************)
(* llm_service.py: the retry loop of get_structured_answer for one session, *)
(* with the exception of each provider call and the calls of the rate       *)
(* limiter it makes.  The clock stands still at StartTime: the sleeps of     *)
(* wait_if_needed and of the backoff end, and no window entry expires.      *)
(***************************************************************************)
\* what LLM_CLIENT.models.generate_content raises: the exception class and
\* what str(e) contains
ProviderErrors ==
  { [class |-> "ServerError", text |-> "503"],
    [class |-> "ServerError", text |-> "overloaded"],
    [class |-> "ServerError", text |-> "500"],
    [class |-> "Exception", text |-> "429"] }

\* '503' in str(e) or 'overloaded' in str(e).lower()
IsOverload(e) == e.text \in {"503", "overloaded"}

\* the label of an exception: overloaded, server_error or other
ErrorKind(e) ==
  IF e.class = "ServerError"
    THEN IF IsOverload(e) THEN "overloaded" ELSE "server_error"
    ELSE "other"

\* a test that never sees the last iteration of range(max_retries)
LastIteration_OffByOne(i) == i = max_retries

\* if attempt == max_retries - 1
LastIteration(i) == i = max_retries - 1

RetryInit ==
  /\ rt_pc = "idle"
  /\ rt_attempt = 0
  /\ rt_max_tokens = 0
  /\ rt_error = "none"
  /\ rt_result = "none"
  /\ rt_cleared = FALSE
  /\ rt_minute = <<>>
  /\ rt_day = <<>>
  /\ rt_successes = 0
  /\ rt_entries = 0

\* get_structured_answer ends
RtEnds(result) ==
  /\ rt_pc' = "idle"
  /\ rt_result' = result
  /\ rt_attempt' = 0

\* max_tokens = get_adaptive_token_limit(...); await
\* rate_limiter.wait_if_needed(estimated_tokens=max_tokens) returns
RtWaitIfNeeded ==
  /\ rt_pc = "idle"
  /\ rt_entries < MaxEntries
  /\ rt_entries' = rt_entries + 1
  /\ rt_pc' = "cleared"
  /\ \E tokens \in {TOKENS_SIMPLE, TOKENS_VERY_COMPLEX} : rt_max_tokens' = tokens
  /\ rt_cleared' = TRUE
  /\ rt_error' = "none"
  /\ rt_result' = "none"
  /\ rt_attempt' = 0
  /\ UNCHANGED <<rt_minute, rt_day, rt_successes>>
  /\ UNCHANGED retryFrame

\* LLM_CLIENT.models.generate_content is called, first or after a backoff sleep
RtCallOracle ==
  /\ rt_pc \in {"cleared", "backoff"}
  /\ rt_pc' = "inflight"
  /\ rt_error' = "none"
  /\ UNCHANGED <<rt_attempt, rt_max_tokens, rt_result, rt_cleared, rt_minute, rt_day,
                 rt_successes, rt_entries>>
  /\ UNCHANGED retryFrame

\* the call returns: record_request(tokens_used=max_tokens), break; then the
\* response is parsed (ValueError when response.parsed is empty)
RtOracleSucceeds ==
  /\ rt_pc = "inflight"
  /\ rt_successes' = rt_successes + 1
  /\ rt_minute' = RecordMinute(rt_minute, StartTime, rt_max_tokens)
  /\ rt_day' = RecordDay(rt_day, StartTime, rt_max_tokens)
  /\ \E parsed \in BOOLEAN : RtEnds(IF parsed THEN "returned" ELSE "raised")
  /\ rt_cleared' = FALSE
  /\ UNCHANGED <<rt_max_tokens, rt_error, rt_entries>>
  /\ UNCHANGED retryFrame

\* await asyncio.sleep(retry_delays[attempt]), then the next iteration
RtRetryAfterDelay ==
  /\ rt_pc' = "backoff"
  /\ rt_attempt' = rt_attempt + 1
  /\ UNCHANGED rt_result

\* the call raises e: 'except ServerError' gives up at once unless e is an
\* overload, which is retried while iterations are left; 'except Exception'
\* raises on the last iteration and sleeps and goes on otherwise
RtOracleRaises ==
  /\ rt_pc = "inflight"
  /\ \E e \in ProviderErrors :
       /\ rt_error' = ErrorKind(e)
       /\ IF e.class = "ServerError"
            THEN IF IsOverload(e)
                   THEN IF RetriesLeft(rt_attempt)
                          THEN RtRetryAfterDelay ELSE RtEnds("unavailable")
                   ELSE RtEnds("raised")
            ELSE IF LastIteration(rt_attempt)
                   THEN RtEnds("raised") ELSE RtRetryAfterDelay
  /\ rt_cleared' = FALSE
  /\ UNCHANGED <<rt_max_tokens, rt_minute, rt_day, rt_successes, rt_entries>>
  /\ UNCHANGED retryFrame

\* a record_request placed where every outcome of the call passes
RecordsRequest_Always(how) == TRUE

\* rate_limiter.record_request follows the returned generate_content only
RecordsRequest(how) == how = "returned"

\* the caller's asyncio.wait_for cancels the coroutine inside the call or a
\* backoff sleep: CancelledError passes both handlers of the retry loop
RtCancelled ==
  /\ rt_pc \in {"inflight", "backoff"}
  /\ RtEnds("cancelled")
  /\ IF RecordsRequest("cancelled")
       THEN /\ rt_minute' = RecordMinute(rt_minute, StartTime, rt_max_tokens)
            /\ rt_day' = RecordDay(rt_day, StartTime, rt_max_tokens)
       ELSE UNCHANGED <<rt_minute, rt_day>>
  /\ UNCHANGED <<rt_max_tokens, rt_error, rt_cleared, rt_successes, rt_entries>>
  /\ UNCHANGED retryFrame

RetryNext ==
  \/ RtWaitIfNeeded
  \/ RtCallOracle
  \/ RtOracleSucceeds
  \/ RtOracleRaises
  \/ RtCancelled

(***************************************************************************)
(* Claims on the retry loop (SpecRetry).                                   *)
(***************************************************************************)
\* a provider call fails in this step with something other than an overload
NonOverloadFailure == rt_pc = "inflight" /\ rt_error' \in {"server_error", "other"}

\* C21 as stated: a failure of the Oracle other than an overload is not
\* retried: the logical attempt ends with the error at once, and no further
\* Oracle call is made in it.
C21_OtherFailuresNotRetried ==
  [][NonOverloadFailure => rt_pc' = "idle" /\ rt_result' = "raised"]_vars

\* C21 amended: a ServerError other than an overload ends the logical attempt
\* at once; any other exception is retried after the backoff sleep while
\* iterations are left and is raised after the last iteration.
C21_OnlyServerErrorsNotRetried ==
  [][/\ (rt_pc = "inflight" /\ rt_error' = "server_error")
          => rt_pc' = "idle" /\ rt_result' = "raised"
     /\ (rt_pc = "inflight" /\ rt_error' = "other")
          => IF rt_attempt = max_retries - 1
               THEN rt_pc' = "idle" /\ rt_result' = "raised"
               ELSE rt_pc' = "backoff" /\ rt_attempt' = rt_attempt + 1]_vars

C21_Witness ==
  /\ rt_pc = "backoff"
  /\ rt_error = "other"
  /\ rt_attempt = max_retries - 1

\* C22: every Oracle call is preceded by a clearance of the rate limiter:
\* between two consecutive calls of a session, retries included,
\* wait_if_needed has been consulted and has returned.
C22_ClearanceBeforeEveryCall ==
  [][(rt_pc # "inflight" /\ rt_pc' = "inflight") => rt_cleared]_vars

\* C23: entries enter the windows only through record_request, which appends
\* the same (timestamp, tokens) pair to both windows, only after a provider
\* call completed successfully and with the requested token ceiling: the
\* entries appended are as many as the successful calls.
C23_RecordedOnlyOnSuccess ==
  [][/\ rt_minute' = rt_day'
     /\ Len(rt_minute') = rt_successes'
     /\ rt_minute' # rt_minute =>
          /\ rt_pc = "inflight"
          /\ rt_error' = "none"
          /\ rt_successes' = rt_successes + 1
          /\ rt_minute' = Append(rt_minute, <<StartTime, rt_max_tokens>>)
     /\ rt_successes' # rt_successes => rt_minute' # rt_minute]_vars

C23_Witness ==
  /\ rt_successes = 2
  /\ Len(rt_minute) = 2
  /\ rt_minute[1][2] # rt_minute[2][2]
  /\ rt_result = "raised"

NoOutcome == [exc |-> "none", status |-> 0, body |-> "none", correct |-> "absent", url |-> NoUrl]

\* how one iteration can go.  exc: what the call raised.  body: the response
\* is plain text, text that begins like JSON and does not parse, a JSON array,
\* or a JSON object; correct: the object's field is true, false, absent or a
\* string.
AttemptOutcomes ==
  [exc : {"TypeError", "TimeoutError"}, status : {0}, body : {"none"},
   correct : {"absent"}, url : {NoUrl}]
  \cup [exc : {"none"}, status : {HTTP_OK, HTTP_BAD_REQUEST},
        body : {"text", "malformed", "array"}, correct : {"absent"}, url : {NoUrl}]
  \cup [exc : {"none"}, status : {HTTP_OK, HTTP_BAD_REQUEST}, body : {"object"},
        correct : {"true", "false", "absent", "string"}, url : {NoUrl, "/stage32"}]

\* an acceptance test on the truth value of the field
SubmissionAccepted_Truthy(r) == r.status = HTTP_OK /\ r.correct \in {"true", "string"}

\* response.status_code == 200 and response_data.get("correct") is True
SubmissionAccepted(r) == r.status = HTTP_OK /\ r.correct = "true"

\* what parsing and checking the response raises ("none": nothing): ValueError
\* for text that is no JSON, AttributeError for .get on a list, Exception for
\* an object that is neither accepted nor correct=false
ResponseRaises(r) ==
  CASE r.body \in {"text", "malformed"} -> "ValueError"
    [] r.body = "array" -> "AttributeError"
    [] OTHER -> IF SubmissionAccepted(r) \/ r.correct = "false" THEN "none" ELSE "Exception"

AttemptInit ==
  /\ at_pc = "loop"
  /\ at_attempt = 0
  /\ at_feedback \in {<<>>, <<[kind |-> "deterministic", attempt |-> 0]>>}
  /\ at_url \in Urls
  /\ at_last = NoOutcome

\* one iteration of 'for attempt in range(MAX_ATTEMPTS)': try, the response
\* check, 'except asyncio.TimeoutError' and 'except Exception'
AttemptIteration ==
  /\ at_pc = "loop"
  /\ AttemptsRemain(at_attempt)
  /\ \E o \in AttemptOutcomes :
       LET exc == IF o.exc # "none" THEN o.exc ELSE ResponseRaises(o)
       IN  /\ at_last' = o
           /\ IF exc # "none"
                THEN IF CaughtInLoop(exc)
                       THEN /\ at_feedback' =
                                 Append(at_feedback, ExceptionFeedback(exc, at_attempt + 1))
                            /\ at_attempt' = at_attempt + 1
                            /\ UNCHANGED <<at_pc, at_url>>
                       ELSE /\ at_pc' = "crashed"
                            /\ UNCHANGED <<at_attempt, at_feedback, at_url>>
                ELSE IF SubmissionAccepted(o)
                       THEN /\ at_url' = o.url
                            /\ at_pc' = IF o.url = NoUrl THEN "returned" ELSE "next_stage"
                            /\ UNCHANGED <<at_attempt, at_feedback>>
                       ELSE /\ at_feedback' =
                                 Append(at_feedback,
                                        [kind |-> "rejected", attempt |-> at_attempt + 1])
                            /\ at_attempt' = at_attempt + 1
                            /\ UNCHANGED <<at_pc, at_url>>
  /\ UNCHANGED attemptFrame

\* the else of the for loop: no iteration was left
AttemptLoopExhausted ==
  /\ at_pc = "loop"
  /\ ~AttemptsRemain(at_attempt)
  /\ at_pc' = "exhausted"
  /\ UNCHANGED <<at_attempt, at_feedback, at_url, at_last>>
  /\ UNCHANGED attemptFrame

AttemptNext == AttemptIteration \/ AttemptLoopExhausted

(***************************************************************************)
(* Claims on the attempt loop (SpecAttempt).                               *)
(***************************************************************************)
\* the response of this step is no JSON, malformed JSON, or has no boolean
\* correct field
UndecidableResponse(o) ==
  /\ o.exc = "none"
  /\ o.body \in {"text", "malformed", "array"} \/ o.correct \in {"absent", "string"}

LoopFeedback == SelectSeq(at_feedback, LAMBDA f : f.kind # "deterministic")

\* C37: in the attempt loop every attempt that does not end in an accepted
\* submission (correct=true with status 200) appends exactly one feedback
\* entry and an accepted one appends none: after k attempts without success
\* the log has grown by k entries.
C37_OneEntryPerFailedAttempt ==
  [][(at_pc = "loop" /\ AttemptsRemain(at_attempt) /\ attemptVars' # attemptVars) =>
       /\ IF at_last'.exc = "none" /\ at_last'.body = "object" /\ at_last'.status = HTTP_OK
             /\ at_last'.correct = "true"
            THEN at_feedback' = at_feedback /\ at_pc' \in {"returned", "next_stage"}
            ELSE /\ Len(at_feedback') = Len(at_feedback) + 1
                 /\ SubSeq(at_feedback', 1, Len(at_feedback)) = at_feedback
                 /\ at_attempt' = at_attempt + 1
       /\ Len(LoopFeedback') = at_attempt']_vars

C37_Witness ==
  /\ at_pc = "exhausted"
  /\ at_attempt = MAX_ATTEMPTS
  /\ Len(at_feedback) = MAX_ATTEMPTS + 1
  /\ {at_feedback[i].kind : i \in 2..4} = {"rejected", "timeout", "internal_error"}

(***************************************************************************)
(* solver.py: where the submissions of one stage are posted.  An absolute    *)
(* URL is a pair of origin and path; what a script names is a path, or a     *)
(* text urljoin refuses.                                                     *)
(***************************************************************************)
\* a null URL, no URL
NoEndpoint == <<>>

\* f"{parsed.scheme}://{parsed.netloc}" of the challenge page
PageOrigin == "https://quiz"

\* the challenge pages
PageUrls == { <<PageOrigin, u>> : u \in Urls }

\* what scrape_quiz_page extracts as submission_url: nothing, or a URL
ParsedSubmissionUrls == { NoEndpoint, <<PageOrigin, "/post-here">>, <<"https://other", "/submit">> }

\* what the canvas script names in fetch(...), open("POST", ...), submit_url
\* or a form action: nothing, a relative path, or a text that urlsplit
\* refuses ("Invalid IPv6 URL")
ScriptCandidates == { NoUrl, "/api/submit", "//[api/submit" }

\* urljoin(base_url, candidate): the joined URL, or NoEndpoint when it raises
\* ValueError
urljoin(base_url, candidate) ==
  IF candidate = "//[api/submit" THEN NoEndpoint ELSE <<base_url, candidate>>

\* target_url of try_deterministic_key_submission: submission_url, else what
\* the script names, else the origin plus /submit; when urljoin raises,
\* 'except Exception: target_url = submission_url or current_url'
DetTargetUrl(submission_url, script, page_url) ==
  IF submission_url # NoEndpoint THEN submission_url
  ELSE IF script = NoUrl THEN urljoin(page_url[1], "/submit")
  ELSE IF urljoin(page_url[1], script) = NoEndpoint
         THEN page_url
         ELSE urljoin(page_url[1], script)

\* if not submission_url: submission_url = urljoin(base_url, "/submit")
FallbackSubmissionUrl(submission_url, page_url) ==
  IF submission_url # NoEndpoint THEN submission_url ELSE urljoin(page_url[1], "/submit")

EndpointInit ==
  /\ ep_pc = "scraped"
  /\ ep_current_url \in PageUrls
  /\ ep_submission_url \in ParsedSubmissionUrls
  /\ ep_script \in ScriptCandidates
  /\ ep_det_target = NoEndpoint
  /\ ep_loop_target = NoEndpoint

\* the deterministic solver finds its formula, resolves target_url and posts
DetPostsKey ==
  /\ ep_pc = "scraped"
  /\ ep_pc' = "det_posted"
  /\ ep_det_target' = DetTargetUrl(ep_submission_url, ep_script, ep_current_url)
  /\ UNCHANGED <<ep_current_url, ep_submission_url, ep_script, ep_loop_target>>
  /\ UNCHANGED endpointFrame

\* the deterministic solver returned False (with or without posting): the
\* check of submission_url before the attempt loop
LoopResolvesUrl ==
  /\ ep_pc \in {"scraped", "det_posted"}
  /\ ep_pc' = "resolved"
  /\ ep_loop_target' = FallbackSubmissionUrl(ep_submission_url, ep_current_url)
  /\ UNCHANGED <<ep_current_url, ep_submission_url, ep_script, ep_det_target>>
  /\ UNCHANGED endpointFrame

EndpointNext == DetPostsKey \/ LoopResolvesUrl

(***************************************************************************)
(* Claims on the submission endpoint (SpecEndpoint).                       *)
(***************************************************************************)
\* target is a resolved endpoint of the stage: a URL parsed from the page when
\* there is one, otherwise the origin plus /submit; never null, never the page
ResolvedEndpoint(target) ==
  /\ target # NoEndpoint
  /\ target # ep_current_url
  /\ IF ep_submission_url # NoEndpoint THEN target = ep_submission_url
     ELSE IF ep_script # NoUrl /\ urljoin(PageOrigin, ep_script) # NoEndpoint
       THEN target \in {urljoin(PageOrigin, ep_script), <<PageOrigin, "/submit">>}
       ELSE target = <<PageOrigin, "/submit">>

\* C32: every submission POST, of the deterministic solver and of the attempt
\* loop, goes to a resolved submission endpoint: the URL parsed from the page
\* when one exists, otherwise the page's origin plus /submit; never to a null
\* URL and never to the challenge page itself.
C32_PostsToResolvedEndpoint ==
  /\ ep_pc = "det_posted" => ResolvedEndpoint(ep_det_target)
  /\ ep_pc = "resolved" => ResolvedEndpoint(ep_loop_target)

(***************************************************************************)
(* rate_limiter.py: get_rate_limiter called from the session threads of the *)
(* executor.  The test of the global, the construction with its assignment  *)
(* and the return are separate steps of a thread: no lock is held and the   *)
(* constructor logs, so another thread can run in between.  Instances are   *)
(* numbered in the order of their construction.                             *)
(***************************************************************************)
\* _rate_limiter = None
NoInstance == 0

SingletonInit ==
  /\ sg_rate_limiter = NoInstance
  /\ sg_pc = [t \in Sessions |-> "start"]
  /\ sg_got = [t \in Sessions |-> NoInstance]
  /\ sg_instances = 0
  /\ sg_records = <<>>

\* if _rate_limiter is None
SgTestsGlobal(t) ==
  /\ sg_pc[t] = "start"
  /\ sg_pc' = [sg_pc EXCEPT ![t] = IF sg_rate_limiter = NoInstance THEN "create" ELSE "return"]
  /\ UNCHANGED <<sg_rate_limiter, sg_got, sg_instances, sg_records>>
  /\ UNCHANGED singletonFrame

\* _rate_limiter = GeminiRateLimiter()
SgCreates(t) ==
  /\ sg_pc[t] = "create"
  /\ sg_instances' = sg_instances + 1
  /\ sg_records' = Append(sg_records, 0)
  /\ sg_rate_limiter' = sg_instances + 1
  /\ sg_pc' = [sg_pc EXCEPT ![t] = "return"]
  /\ UNCHANGED sg_got
  /\ UNCHANGED singletonFrame

\* return _rate_limiter
SgReturns(t) ==
  /\ sg_pc[t] = "return"
  /\ sg_got' = [sg_got EXCEPT ![t] = sg_rate_limiter]
  /\ sg_pc' = [sg_pc EXCEPT ![t] = "has"]
  /\ UNCHANGED <<sg_rate_limiter, sg_instances, sg_records>>
  /\ UNCHANGED singletonFrame

\* rate_limiter.record_request on the instance the thread holds; the next
\* get_structured_answer of the thread calls get_rate_limiter again
SgRecords(t) ==
  /\ sg_pc[t] = "has"
  /\ sg_records[sg_got[t]] < MaxEntries
  /\ sg_records' = [sg_records EXCEPT ![sg_got[t]] = @ + 1]
  /\ sg_pc' = [sg_pc EXCEPT ![t] = "start"]
  /\ UNCHANGED <<sg_rate_limiter, sg_got, sg_instances>>
  /\ UNCHANGED singletonFrame

SingletonNext ==
  \E t \in Sessions : SgTestsGlobal(t) \/ SgCreates(t) \/ SgReturns(t) \/ SgRecords(t)

(***************************************************************************)
(* Claims on get_rate_limiter (SpecSingleton).                             *)
(***************************************************************************)
\* C34: the rate limiter is a process-wide singleton: every call of
\* get_rate_limiter, from any thread and under any interleaving of the first
\* calls, returns the same instance, so that all sessions append to the same
\* windows.
C34_OneLimiterInstance ==
  /\ sg_instances <= 1
  /\ \A t, u \in Sessions :
       (sg_got[t] # NoInstance /\ sg_got[u] # NoInstance) => sg_got[t] = sg_got[u]

(***************************************************************************)
(* solver.py and main.py: two sessions running side by side, each in its own *)
(* executor thread with its own event loop, each a call of                   *)
(* solve_quiz_sequence_core with its own locals.  Of a stage only what       *)
(* touches current_url, past_attempt_feedback, stage_deadline and the        *)
(* attempt counter is kept: the stage begins, an iteration of the attempt    *)
(* loop fails (TypeError), the stage is exhausted.                           *)
(***************************************************************************)
\* a feedback list bound once for the module (a global, a mutable default)
FeedbackOwner_Module(s) == "s1"

\* past_attempt_feedback: List[str] = [] is a local of the session's call
FeedbackOwner(s) == s

SessionsInit ==
  /\ ss_now = 0
  /\ ss_pc = [s \in Sessions |-> "start"]
  /\ ss_url \in [Sessions -> {"/stage31", "/demo"}]
  /\ ss_feedback = [s \in Sessions |-> <<>>]
  /\ ss_deadline = [s \in Sessions |-> 0]
  /\ ss_attempt = [s \in Sessions |-> 0]

\* time passes
SsTick ==
  /\ ss_now < MaxTicks * TickStep
  /\ ss_now' = ss_now + TickStep
  /\ UNCHANGED <<ss_pc, ss_url, ss_feedback, ss_deadline, ss_attempt>>
  /\ UNCHANGED sessionsFrame

\* while current_url: stage_deadline = time.time() + MAX_STAGE_TIME_SECONDS;
\* the page is scraped and the attempt loop begins
SsStageStarts(s) ==
  /\ ss_pc[s] = "start"
  /\ ss_pc' = [ss_pc EXCEPT ![s] = "loop"]
  /\ ss_deadline' = [ss_deadline EXCEPT ![s] = ss_now + MAX_STAGE_TIME_SECONDS]
  /\ ss_attempt' = [ss_attempt EXCEPT ![s] = 0]
  /\ UNCHANGED <<ss_now, ss_url, ss_feedback>>
  /\ UNCHANGED sessionsFrame

\* one iteration of the attempt loop: the call raises TypeError, the handler
\* appends to past_attempt_feedback
SsAttemptFails(s) ==
  /\ ss_pc[s] = "loop"
  /\ AttemptsRemain(ss_attempt[s])
  /\ ss_attempt' = [ss_attempt EXCEPT ![s] = @ + 1]
  /\ ss_feedback' = [ss_feedback EXCEPT ![FeedbackOwner(s)] =
                       Append(@, ExceptionFeedback("TypeError", ss_attempt[s] + 1))]
  /\ UNCHANGED <<ss_now, ss_pc, ss_url, ss_deadline>>
  /\ UNCHANGED sessionsFrame

\* the else of the attempt loop: the next stage, or the session returns
SsStageExhausted(s) ==
  /\ ss_pc[s] = "loop"
  /\ ~AttemptsRemain(ss_attempt[s])
  /\ LET n == stage_num(ss_url[s])
     IN  IF n # NoStage /\ n < LAST_STAGE
           THEN /\ ss_url' = [ss_url EXCEPT ![s] = StageUrl(NextStage(n))]
                /\ ss_pc' = [ss_pc EXCEPT ![s] = "start"]
           ELSE /\ ss_pc' = [ss_pc EXCEPT ![s] = "done"]
                /\ UNCHANGED ss_url
  /\ UNCHANGED <<ss_now, ss_feedback, ss_deadline, ss_attempt>>
  /\ UNCHANGED sessionsFrame

SessionsNext ==
  \/ SsTick
  \/ \E s \in Sessions : SsStageStarts(s) \/ SsAttemptFails(s) \/ SsStageExhausted(s)

(***************************************************************************)
(* Claims on concurrent sessions (SpecSessions).                           *)
(***************************************************************************)
\* what a session owns
OwnState(s) == <<ss_url[s], ss_feedback[s], ss_deadline[s], ss_attempt[s]>>

\* C36: no step of one session changes another session's current_url,
\* feedback log, stage deadline or attempt counter: every step changes the
\* state of at most one session, the one whose position or counter moves.
C36_SessionsShareNothing ==
  [][\A s \in Sessions :
       OwnState(s)' # OwnState(s)
         => /\ ss_pc'[s] # ss_pc[s] \/ ss_attempt'[s] # ss_attempt[s]
            /\ \A t \in Sessions \ {s} :
                 OwnState(t)' = OwnState(t) /\ ss_pc'[t] = ss_pc[t]]_vars

C36_Witness ==
  /\ ss_pc = [s \in Sessions |-> "loop"]
  /\ ss_url["s1"] # ss_url["s2"]
  /\ ss_attempt["s1"] = 2
  /\ ss_attempt["s2"] = 1
  /\ Len(ss_feedback["s1"]) = 5
  /\ Len(ss_feedback["s2"]) = 1
  /\ ss_deadline["s1"] # ss_deadline["s2"]

(***************************************************************************)
(* The specifications.                                                     *)
(***************************************************************************)
\* no worker thread is inside get_structured_answer; the limiter has its defaults
OracleIdle ==
  /\ now = StartTime
  /\ rpm_limit = DEFAULT_RPM /\ tpm_limit = DEFAULT_TPM /\ rpd_limit = DEFAULT_RPD
  /\ requests_minute = <<>>
  /\ requests_day = <<>>
  /\ gsa_pc = [s \in Sessions |-> "idle"]
  /\ gsa_attempt = [s \in Sessions |-> 0]
  /\ max_tokens = [s \in Sessions |-> 0]
  /\ wait_time = [s \in Sessions |-> -1]
  /\ wake_at = [s \in Sessions |-> NoWake]
  /\ gsa_calls = [s \in Sessions |-> 0]
  /\ gsa_result = [s \in Sessions |-> "none"]
  /\ recent_calls = <<>>
  /\ calls_made = 0
  /\ gsa_entries = 0

\* no session is being solved
SolverIdle ==
  /\ stage_pc = "done"
  /\ outcome = "none"
  /\ current_url = NoUrl
  /\ det_applies = FALSE
  /\ det_idx = 0
  /\ attempt = 0
  /\ past_attempt_feedback = <<>>
  /\ stage_feedback_start = 0
  /\ stage_oracle_calls = 0
  /\ stage_only_rejections = TRUE
  /\ fetches = 0
  /\ accepted_next = NoUrl
  /\ final_statuses = {}
  /\ det_submitted = <<>>
  /\ error_context = <<>>
  /\ exhausted_stages = <<>>
  /\ last_action = "none"

\* no request has arrived
ApiIdle ==
  /\ MASTER_SECRET = NoSecret
  /\ api_pc = [r \in RequestIds |-> "none"]
  /\ body = [r \in RequestIds |-> NoBody]
  /\ response = [r \in RequestIds |-> NoResponse]
  /\ secret_checked = [r \in RequestIds |-> FALSE]
  /\ submitted = [r \in RequestIds |-> 0]
  /\ executor_queue = <<>>
  /\ chain = [r \in RequestIds |-> "none"]

\* format_answer_with_padding is not being applied
FormatIdle ==
  /\ fmt_pc = "twice"
  /\ fmt_answer = NoAnswer
  /\ fmt_page = <<>>
  /\ fmt_once = NoAnswer
  /\ fmt_twice = NoAnswer
  /\ submission_answer = NoAnswer
  /\ feedback_submitted = NoAnswer

\* no response is being cleaned
SanitizeIdle ==
  /\ san_pc = "returned"
  /\ original_answer = <<>>
  /\ final_answer_str = <<>>
  /\ san_error = "none"

\* no stage is handling media
MediaIdle ==
  /\ media_pc = "exited"
  /\ media_files = 0
  /\ media_attempt = 0
  /\ media_idx = 0
  /\ downloaded_files = <<>>
  /\ canvas_image_path = NoPath
  /\ temp_files = {}
  /\ exit_path = "none"

\* no worker thread is inside the limiter
RaceIdle ==
  /\ rc_now = StartTime
  /\ rc_minute = <<>>
  /\ rc_pc = [t \in Sessions |-> "idle"]
  /\ rc_local_now = [t \in Sessions |-> StartTime]
  /\ rc_error = [t \in Sessions |-> "none"]
  /\ rc_lost = {}
  /\ rc_ops = 0

\* no stage is being timed
BudgetIdle ==
  /\ bg_pc = "done"
  /\ bg_det_applies = FALSE
  /\ bg_base_timeout = BASE_TIMEOUT_TEXT
  /\ bg_det_idx = 0
  /\ bg_attempt = 0
  /\ stage_elapsed = 0
  /\ attempt_timeout = NoTimeout

\* get_structured_answer is not running
RetryIdle ==
  /\ rt_pc = "idle"
  /\ rt_attempt = 0
  /\ rt_max_tokens = 0
  /\ rt_error = "none"
  /\ rt_result = "none"
  /\ rt_cleared = FALSE
  /\ rt_minute = <<>>
  /\ rt_day = <<>>
  /\ rt_successes = 0
  /\ rt_entries = MaxEntries

\* no attempt loop is running
AttemptIdle ==
  /\ at_pc = "returned"
  /\ at_attempt = 0
  /\ at_feedback = <<>>
  /\ at_url = NoUrl
  /\ at_last = NoOutcome

\* no submission endpoint is being resolved
EndpointIdle ==
  /\ ep_pc = "idle"
  /\ ep_current_url = NoEndpoint
  /\ ep_submission_url = NoEndpoint
  /\ ep_script = NoUrl
  /\ ep_det_target = NoEndpoint
  /\ ep_loop_target = NoEndpoint

\* no thread has called get_rate_limiter
SingletonIdle ==
  /\ sg_rate_limiter = NoInstance
  /\ sg_pc = [t \in Sessions |-> "done"]
  /\ sg_got = [t \in Sessions |-> NoInstance]
  /\ sg_instances = 0
  /\ sg_records = <<>>

\* no session is running
SessionsIdle ==
  /\ ss_now = 0
  /\ ss_pc = [s \in Sessions |-> "done"]
  /\ ss_url = [s \in Sessions |-> NoUrl]
  /\ ss_feedback = [s \in Sessions |-> <<>>]
  /\ ss_deadline = [s \in Sessions |-> 0]
  /\ ss_attempt = [s \in Sessions |-> 0]

\* every part but the one named is at rest
IdleExcept(part) ==
  /\ IF part = "oracle" THEN TRUE ELSE OracleIdle
  /\ IF part = "solver" THEN TRUE ELSE SolverIdle
  /\ IF part = "api" THEN TRUE ELSE ApiIdle
  /\ IF part = "format" THEN TRUE ELSE FormatIdle
  /\ IF part = "sanitize" THEN TRUE ELSE SanitizeIdle
  /\ IF part = "media" THEN TRUE ELSE MediaIdle
  /\ IF part = "race" THEN TRUE ELSE RaceIdle
  /\ IF part = "budget" THEN TRUE ELSE BudgetIdle
  /\ IF part = "retry" THEN TRUE ELSE RetryIdle
  /\ IF part = "attempt" THEN TRUE ELSE AttemptIdle
  /\ IF part = "endpoint" THEN TRUE ELSE EndpointIdle
  /\ IF part = "singleton" THEN TRUE ELSE SingletonIdle
  /\ IF part = "sessions" THEN TRUE ELSE SessionsIdle

Init == SolverInit /\ IdleExcept("solver")

Next == SolverNext

Spec == Init /\ [][Next]_vars

InitOracle == OracleInit /\ IdleExcept("oracle")

SpecOracle == InitOracle /\ [][OracleNext]_vars

InitApi == ApiInit /\ IdleExcept("api")

SpecApi == InitApi /\ [][ApiNext]_vars

InitFormat == FormatInit /\ IdleExcept("format")

SpecFormat == InitFormat /\ [][FormatNext]_vars

InitSanitize == SanitizeInit /\ IdleExcept("sanitize")

SpecSanitize == InitSanitize /\ [][SanitizeNext]_vars

InitMedia == MediaInit /\ IdleExcept("media")

SpecMedia == InitMedia /\ [][MediaNext]_vars

InitRace == RaceInit /\ IdleExcept("race")

SpecRace == InitRace /\ [][RaceNext]_vars

InitBudget == BudgetInit /\ IdleExcept("budget")

SpecBudget == InitBudget /\ [][BudgetNext]_vars

InitRetry == RetryInit /\ IdleExcept("retry")

SpecRetry == InitRetry /\ [][RetryNext]_vars

InitAttempt == AttemptInit /\ IdleExcept("attempt")

SpecAttempt == InitAttempt /\ [][AttemptNext]_vars

InitEndpoint == EndpointInit /\ IdleExcept("endpoint")

SpecEndpoint == InitEndpoint /\ [][EndpointNext]_vars

InitSingleton == SingletonInit /\ IdleExcept("singleton")

SpecSingleton == InitSingleton /\ [][SingletonNext]_vars

InitSessions == SessionsInit /\ IdleExcept("sessions")

SpecSessions == InitSessions /\ [][SessionsNext]_vars

=============================================================================
